---- MODULE Spec2Model ----
(***************************************************************************)
(* Real-time messaging backend: the connection registry and router of      *)
(* backend/src/infrastructure/socket/socket.ts, with the service and       *)
(* repository calls its handlers make.                                     *)
(*                                                                         *)
(* A handler is an async function: it runs without interruption up to an   *)
(* await on database I/O, where handlers of other socket events may run.   *)
(* Every in-flight handler is a frame in `frames`, its `pc` naming the     *)
(* store call it awaits; a store call may succeed or throw.  `done` is the  *)
(* handler that the last step completed (none when the step completed no   *)
(* handler), with the callback invocations (`acks`), the emissions         *)
(* (`emits`) and the presence writes and queries (`writes`) it made.       *)
(***************************************************************************)
EXTENDS Integers, Sequences, FiniteSets, TLC

\* ---------------------------------------------------------------- bounds
NUsers == 2
NSockets == 3
MaxInFlight == 2
MaxMsgs == 1

Users == 1..NUsers
Sockets == 1..NSockets

\* ------------------------------------------------------------- constants
NoUser == 0
NoSocket == 0
Broadcast == -1

VARIABLES
  sockets,          \* socket id -> "open" | "closed"
  connectedUsers,   \* the Map<number,string>, in insertion order
  messages,         \* rows of the messages table
  conversations,    \* rows of the conversations table
  nextMessageId,    \* AUTO_INCREMENT of the messages table
  groups,           \* rows of the groups table
  groupMembers,     \* rows of the group_members table
  groupMessages,    \* rows of the group_messages table
  groupReads,       \* rows of the group_message_reads table
  frames,           \* handlers suspended at an await
  done              \* the handler the last step completed, if any

vars == <<sockets, connectedUsers, messages, conversations, nextMessageId,
          groups, groupMembers, groupMessages, groupReads, frames, done>>

registry == <<sockets, connectedUsers>>
directStore == <<messages, conversations, nextMessageId>>
groupStore == <<groups, groupMembers, groupMessages, groupReads>>

\* ------------------------------------------------- Map<number,string>
\* A JavaScript Map iterates in insertion order; set() on a present key
\* keeps the key's position.
MapHas(m, k) == \E i \in 1..Len(m) : m[i].userId = k

MapGet(m, k) ==
  IF MapHas(m, k)
  THEN m[CHOOSE i \in 1..Len(m) : m[i].userId = k].socketId
  ELSE NoSocket

MapSetKeepsFirst(m, k, v) ==
  IF MapHas(m, k) THEN m ELSE Append(m, [userId |-> k, socketId |-> v])

MapSet(m, k, v) ==
  IF MapHas(m, k)
  THEN [i \in 1..Len(m) |-> IF m[i].userId = k THEN [userId |-> k, socketId |-> v] ELSE m[i]]
  ELSE Append(m, [userId |-> k, socketId |-> v])

MapDelete(m, k) == SelectSeq(m, LAMBDA e : e.userId # k)

\* The first key, in iteration order, whose value is socketId.
FirstKeyOf(m, socketId) ==
  IF \E i \in 1..Len(m) : m[i].socketId = socketId
  THEN m[CHOOSE i \in 1..Len(m) :
            /\ m[i].socketId = socketId
            /\ \A j \in 1..(i-1) : m[j].socketId # socketId].userId
  ELSE NoUser

getUserIdBySocketId(socketId) == FirstKeyOf(connectedUsers, socketId)

\* ------------------------------------------------------------ frames
NoArg == NoUser

\* A client may repeat a request while the first is in flight: n tells frames
\* that are otherwise equal apart.
Frame(op, c, u, a, b, pc) ==
  [op |-> op, sock |-> c, userId |-> u, a |-> a, b |-> b, pc |-> pc,
   n |-> 1, acks |-> <<>>, emits |-> <<>>, writes |-> <<>>]

SameButN(g, h) == [g EXCEPT !.n = 1] = [h EXCEPT !.n = 1]

Renumber(F) ==
  {[g EXCEPT !.n = Cardinality({h \in F : SameButN(g, h) /\ h.n < g.n}) + 1] : g \in F}

AddFrame(F, g) == Renumber(F \cup {[g EXCEPT !.n = Cardinality(F) + 1]})

\* `threw` names the store call whose exception ended the handler or was
\* caught on its behalf; "none" when every store call returned.
Completed(op, c, u, a, b, acks, emits, writes) ==
  [op |-> op, sock |-> c, userId |-> u, a |-> a, b |-> b,
   acks |-> acks, emits |-> emits, writes |-> writes, threw |-> "none"]

Threw(d, call) == [d EXCEPT !.threw = call]

CanSuspend(f) == Cardinality(frames) < MaxInFlight

\* The event loop runs one handler segment per turn: the next segment starts
\* after the turn that completed a handler has ended.
TurnEnded == done.op = "none"

Emit(ev, to, key) == [ev |-> ev, to |-> to, key |-> key]

EmitUnguarded(ev, socketId, key) == <<Emit(ev, socketId, key)>>

\* this.io.to(socketId).emit(...) guarded by `if (socketId)`
EmitIfBound(ev, socketId, key) ==
  IF socketId # NoSocket THEN <<Emit(ev, socketId, key)>> ELSE <<>>

AckOk == [success |-> TRUE, error |-> "none"]
AckErr(e) == [success |-> FALSE, error |-> e]

NoneDone == Completed("none", NoSocket, NoUser, NoArg, NoArg, <<>>, <<>>, <<>>)

\* The handler returns within the turn that started it.
Finish(d) == done' = d /\ UNCHANGED frames

\* The handler reaches its first await, the frame resumes at a later await,
\* the handler returns after an await.
Suspend(f) == CanSuspend(f) /\ frames' = AddFrame(frames, f) /\ done' = NoneDone

Resume(f, g) == frames' = AddFrame(frames \ {f}, g) /\ done' = NoneDone

Return(f, d) == frames' = Renumber(frames \ {f}) /\ done' = d

\* ------------------------------------------------- router handler skeleton
\* `if (!userId) return callback({ success: false, error: 'No autenticado' })`
NotAuthenticatedSilent(op, c) ==
  Completed(op, c, NoUser, NoArg, NoArg, <<>>, <<>>, <<>>)

NotAuthenticated(op, c) ==
  Completed(op, c, NoUser, NoArg, NoArg, <<AckErr("No autenticado")>>, <<>>, <<>>)

\* catch (error) { callback({ success: false, error: error.message }) }: the
\* callback is invoked again when the exception comes after an invocation.
Fails(f, e) ==
  Threw(Completed(f.op, f.sock, f.userId, f.a, f.b, Append(f.acks, AckErr(e)),
                  f.emits, f.writes), e)

\* The clients are connected (io.on('connection') ran for each socket) and
\* none has authenticated; both tables are empty.
Init ==
  /\ sockets = [c \in Sockets |-> "open"]
  /\ connectedUsers = <<>>
  /\ messages = <<>>
  /\ conversations = <<>>
  /\ nextMessageId = 1
  /\ groups = <<>>
  /\ groupMembers = <<>>
  /\ groupMessages = <<>>
  /\ groupReads = {}
  /\ frames = {}
  /\ done = NoneDone

\* ------------------------------------------------------- authenticate
\* connectedUsers.set runs before the first await.
AuthenticateBegin(c, u) ==
  LET f == Frame("authenticate", c, u, NoArg, NoArg, "updateStatus") IN
  /\ TurnEnded
  /\ sockets[c] = "open"
  /\ connectedUsers' = MapSet(connectedUsers, u, c)
  /\ Suspend(f)
  /\ UNCHANGED <<sockets, directStore, groupStore>>

\* updateStatus(userId, ONLINE) returns or throws (caught and logged); then
\* 'authenticated' to the caller and user:online to everyone.
AuthenticateEmits(f) ==
  <<Emit("authenticated", f.sock, f.userId), Emit("user:online", Broadcast, f.userId)>>

\* A failed updateStatus that ended the handler at the catch.
AuthenticateEndBlocked(f, ok) ==
  /\ TurnEnded
  /\ f \in frames /\ f.op = "authenticate" /\ f.pc = "updateStatus"
  /\ Return(f, IF ok
               THEN Completed(f.op, f.sock, f.userId, NoArg, NoArg, <<>>,
                              AuthenticateEmits(f), <<"ONLINE">>)
               ELSE Threw(Completed(f.op, f.sock, f.userId, NoArg, NoArg, <<>>,
                                    <<>>, <<>>), "updateStatus"))
  /\ UNCHANGED <<registry, directStore, groupStore>>

AuthenticateEnd(f, ok) ==
  /\ TurnEnded
  /\ f \in frames /\ f.op = "authenticate" /\ f.pc = "updateStatus"
  /\ Return(f, IF ok
               THEN Completed(f.op, f.sock, f.userId, NoArg, NoArg, <<>>,
                              AuthenticateEmits(f), <<"ONLINE">>)
               ELSE Threw(Completed(f.op, f.sock, f.userId, NoArg, NoArg, <<>>,
                                    AuthenticateEmits(f), <<>>), "updateStatus"))
  /\ UNCHANGED <<registry, directStore, groupStore>>

\* --------------------------------------------------------- disconnect
DisconnectedUserIdAnySocket(c) ==
  IF connectedUsers # <<>> THEN connectedUsers[1].userId ELSE NoUser

\* The loop deletes the first entry whose value is this socket's id.
DisconnectedUserId(c) == FirstKeyOf(connectedUsers, c)

DisconnectBegin(c) ==
  LET u == DisconnectedUserId(c)
      f == Frame("disconnect", c, u, NoArg, NoArg, "updateStatus") IN
  /\ TurnEnded
  /\ sockets[c] = "open"
  /\ sockets' = [sockets EXCEPT ![c] = "closed"]
  /\ connectedUsers' = IF u # NoUser THEN MapDelete(connectedUsers, u) ELSE connectedUsers
  /\ IF u # NoUser
     THEN Suspend(f)
     ELSE Finish(Completed("disconnect", c, NoUser, NoArg, NoArg, <<>>, <<>>, <<>>))
  /\ UNCHANGED <<directStore, groupStore>>

DisconnectEmits(f) == <<Emit("user:offline", Broadcast, f.userId)>>

DisconnectUpdateStatus(f, ok) ==
  /\ TurnEnded
  /\ f \in frames /\ f.op = "disconnect" /\ f.pc = "updateStatus"
  /\ IF ok
     THEN Resume(f, [f EXCEPT !.pc = "updateLastSeen", !.writes = <<"OFFLINE">>])
     ELSE Return(f, Threw(Completed(f.op, f.sock, f.userId, NoArg, NoArg, <<>>,
                                    DisconnectEmits(f), <<>>), "updateStatus"))
  /\ UNCHANGED <<registry, directStore, groupStore>>

DisconnectUpdateLastSeen(f, ok) ==
  /\ TurnEnded
  /\ f \in frames /\ f.op = "disconnect" /\ f.pc = "updateLastSeen"
  /\ Return(f, IF ok
               THEN Completed(f.op, f.sock, f.userId, NoArg, NoArg, <<>>,
                              DisconnectEmits(f), Append(f.writes, "lastSeen"))
               ELSE Threw(Completed(f.op, f.sock, f.userId, NoArg, NoArg, <<>>,
                                    DisconnectEmits(f), f.writes), "updateLastSeen"))
  /\ UNCHANGED <<registry, directStore, groupStore>>

\* ------------------------------------------------ message:send (legacy)
\* No callback, no await and no lookup of the sender: the payload, with the
\* `from` the client wrote, goes to the socket bound to `to`, and message:sent
\* goes back to the sending socket.  The acting user is data.from.
LegacyMessageSend(c, from, to) ==
  /\ TurnEnded
  /\ sockets[c] = "open"
  /\ Finish(Completed("message:send", c, from, to, NoArg, <<>>,
                      EmitIfBound("message:receive", MapGet(connectedUsers, to), from)
                        \o <<Emit("message:sent", c, from)>>,
                      <<>>))
  /\ UNCHANGED <<registry, directStore, groupStore>>

\* ------------------------------------------- conversation.repository.ts
SmallerId(a, b) == IF a < b THEN a ELSE b
LargerId(a, b) == IF a < b THEN b ELSE a

SamePair(row, a, b) ==
  \/ row.user1_id = SmallerId(a, b) /\ row.user2_id = LargerId(a, b)
  \/ row.user1_id = LargerId(a, b) /\ row.user2_id = SmallerId(a, b)

\* UPDATE conversations SET last_message_id = ? WHERE id = existing[0].id
UpdateConversation(convs, user1Id, user2Id, lastMessageId) ==
  LET k == CHOOSE i \in 1..Len(convs) :
             /\ SamePair(convs[i], user1Id, user2Id)
             /\ \A j \in 1..(i-1) : ~SamePair(convs[j], user1Id, user2Id)
  IN [convs EXCEPT ![k].last_message_id = lastMessageId]

\* INSERT INTO conversations (user1_id, user2_id, last_message_id, ...)
InsertConversation(convs, user1Id, user2Id, lastMessageId) ==
  Append(convs, [user1_id |-> SmallerId(user1Id, user2Id),
                 user2_id |-> LargerId(user1Id, user2Id),
                 last_message_id |-> lastMessageId,
                 unread_count_user1 |-> 0, unread_count_user2 |-> 0])

\* SELECT id ...; UPDATE ... WHERE id = existing[0].id, or INSERT (smaller, larger).
createOrUpdate(convs, user1Id, user2Id, lastMessageId) ==
  IF \E i \in 1..Len(convs) : SamePair(convs[i], user1Id, user2Id)
  THEN UpdateConversation(convs, user1Id, user2Id, lastMessageId)
  ELSE InsertConversation(convs, user1Id, user2Id, lastMessageId)

\* The same UPDATE with the column chosen by the sender's position.
incrementUnreadCountOfSender(convs, receiverId, senderId) ==
  [i \in 1..Len(convs) |->
     IF SamePair(convs[i], receiverId, senderId)
     THEN IF senderId = SmallerId(receiverId, senderId)
          THEN [convs[i] EXCEPT !.unread_count_user1 = @ + 1]
          ELSE [convs[i] EXCEPT !.unread_count_user2 = @ + 1]
     ELSE convs[i]]

\* UPDATE conversations SET <column> = <column> + 1 WHERE the pair matches.
incrementUnreadCount(convs, receiverId, senderId) ==
  [i \in 1..Len(convs) |->
     IF SamePair(convs[i], receiverId, senderId)
     THEN IF receiverId = SmallerId(receiverId, senderId)
          THEN [convs[i] EXCEPT !.unread_count_user1 = @ + 1]
          ELSE [convs[i] EXCEPT !.unread_count_user2 = @ + 1]
     ELSE convs[i]]

\* ------------------------------------------------ message.repository.ts
\* INSERT INTO messages: a new row with the next AUTO_INCREMENT id.
create(msgs, id, sender_id, receiver_id) ==
  Append(msgs, [id |-> id, sender_id |-> sender_id, receiver_id |-> receiver_id,
                is_read |-> FALSE, deleted_by_sender |-> FALSE,
                deleted_by_receiver |-> FALSE])

\* SELECT ... ORDER BY timestamp ASC LIMIT limit OFFSET offset: the rows between
\* the two users that the caller's side has not deleted, oldest first.
VisibleTo(row, userId, contactId) ==
  \/ row.sender_id = userId /\ row.receiver_id = contactId /\ ~row.deleted_by_sender
  \/ row.sender_id = contactId /\ row.receiver_id = userId /\ ~row.deleted_by_receiver

getConversationHistory(msgs, userId, contactId, limit, offset) ==
  LET rows == SelectSeq(msgs, LAMBDA r : VisibleTo(r, userId, contactId))
      last == IF offset + limit < Len(rows) THEN offset + limit ELSE Len(rows)
  IN SubSeq(rows, offset + 1, last)

DefaultLimit == 50

\* ------------------------------------------------------ chat.service.ts
Contents == {<<>>, <<" ">>, <<"h", "i">>, <<" ", "h", " ">>}

RECURSIVE TrimStart(_)
TrimStart(s) == IF s # <<>> /\ Head(s) = " " THEN TrimStart(Tail(s)) ELSE s

RECURSIVE TrimEnd(_)
TrimEnd(s) ==
  IF s # <<>> /\ s[Len(s)] = " " THEN TrimEnd(SubSeq(s, 1, Len(s) - 1)) ELSE s

trim(s) == TrimEnd(TrimStart(s))

\* The validation of the content alone.
SendMessageRejectsContent(senderId, receiverId, content) ==
  IF Len(trim(content)) = 0 THEN "El mensaje no puede estar vacio" ELSE "none"

\* The validations of sendMessage, which throw before any store call.
SendMessageRejects(senderId, receiverId, content) ==
  IF Len(trim(content)) = 0 THEN "El mensaje no puede estar vacio"
  ELSE IF senderId = receiverId THEN "No puedes enviarte mensajes a ti mismo"
  ELSE "none"

\* The store calls of sendMessage, in order; the first to throw ends it.
SendMessageCalls == <<"create", "createOrUpdate", "incrementUnreadCount">>

SendMessageFailPoints == {"create", "createOrUpdate", "incrementUnreadCount", "none"}

\* ---------------------------------------------------- chat:send-message
InFlight(op) == Cardinality({g \in frames : g.op = op})

\* The handler without its test of the looked-up user.
ChatSendMessageBeginUnchecked(c, receiverId, content) ==
  LET userId == getUserIdBySocketId(c)
      f == Frame("chat:send-message", c, userId, receiverId, NoArg, "sendMessage")
      rejected == SendMessageRejects(userId, receiverId, content) IN
  /\ TurnEnded
  /\ sockets[c] = "open"
  /\ IF rejected # "none"
     THEN Finish(Threw(Completed(f.op, c, userId, NoArg, NoArg,
                                 <<AckErr(rejected)>>, <<>>, <<>>), rejected))
     ELSE /\ nextMessageId + InFlight("chat:send-message") <= MaxMsgs
          /\ Suspend(f)
  /\ UNCHANGED <<registry, directStore, groupStore>>

ChatSendMessageBegin(c, receiverId, content) ==
  LET userId == getUserIdBySocketId(c)
      f == Frame("chat:send-message", c, userId, receiverId, NoArg, "sendMessage")
      rejected == SendMessageRejects(userId, receiverId, content) IN
  /\ TurnEnded
  /\ sockets[c] = "open"
  /\ IF userId = NoUser THEN Finish(NotAuthenticated(f.op, c))
     ELSE IF rejected # "none"
     THEN Finish(Threw(Completed(f.op, c, userId, NoArg, NoArg,
                                 <<AckErr(rejected)>>, <<>>, <<>>), rejected))
     ELSE /\ nextMessageId + InFlight("chat:send-message") <= MaxMsgs
          /\ Suspend(f)
  /\ UNCHANGED <<registry, directStore, groupStore>>

\* sendMessage returns or throws; on return the callback gets the message and
\* the receiver's socket, if the registry has one now, gets chat:new-message.
ChatSendMessageFanOutToAll(f, messageId) ==
  <<Emit("chat:new-message", Broadcast, messageId)>>

ChatSendMessageFanOut(f, messageId) ==
  EmitIfBound("chat:new-message", MapGet(connectedUsers, f.a), messageId)

ChatSendMessageEnd(f, failAt) ==
  /\ TurnEnded
  /\ f \in frames /\ f.op = "chat:send-message" /\ f.pc = "sendMessage"
  /\ messages' = IF failAt # "create"
                 THEN create(messages, nextMessageId, f.userId, f.a)
                 ELSE messages
  /\ nextMessageId' = IF failAt # "create" THEN nextMessageId + 1 ELSE nextMessageId
  /\ conversations' =
       IF failAt \in {"create", "createOrUpdate"} THEN conversations
       ELSE IF failAt = "incrementUnreadCount"
       THEN createOrUpdate(conversations, f.userId, f.a, nextMessageId)
       ELSE incrementUnreadCount(
              createOrUpdate(conversations, f.userId, f.a, nextMessageId), f.a, f.userId)
  /\ Return(f, IF failAt = "none"
               THEN Completed(f.op, f.sock, f.userId, f.a, nextMessageId, <<AckOk>>,
                              ChatSendMessageFanOut(f, nextMessageId), <<>>)
               ELSE Threw(Completed(f.op, f.sock, f.userId, f.a, NoArg,
                                    <<AckErr(failAt)>>, <<>>, <<>>), failAt))
  /\ UNCHANGED <<registry, groupStore>>

\* ---------------------------------------------------- chat:edit-message
\* chat.service.ts of this tree has no editMessage; it is taken from the
\* specification of editDirect: the content must not be empty after trim, the
\* caller must be the sender of an existing message (one error covers both), the
\* row's ciphertext and iv are replaced and the message is returned.
EditMessageError == "No tienes permisos para editar este mensaje o el mensaje no existe"

HasMessage(msgs, messageId) == \E i \in 1..Len(msgs) : msgs[i].id = messageId

MessageById(msgs, messageId) == msgs[CHOOSE i \in 1..Len(msgs) : msgs[i].id = messageId]

editMessage(msgs, messageId, userId) ==
  HasMessage(msgs, messageId) /\ MessageById(msgs, messageId).sender_id = userId

MessageIds == 1..MaxMsgs

ChatEditMessageBegin(c, messageId, newContent) ==
  LET userId == getUserIdBySocketId(c)
      f == Frame("chat:edit-message", c, userId, messageId, NoArg, "editMessage") IN
  /\ TurnEnded
  /\ sockets[c] = "open"
  /\ IF userId = NoUser THEN Finish(NotAuthenticated(f.op, c))
     ELSE IF Len(trim(newContent)) = 0
     THEN Finish(Fails(f, "El mensaje no puede estar vacio"))
     ELSE Suspend(f)
  /\ UNCHANGED <<registry, directStore, groupStore>>

\* The handler with io.emit in place of the emit to the other party.
ChatEditMessageEndToAll(f, ok) ==
  /\ TurnEnded
  /\ f \in frames /\ f.op = "chat:edit-message" /\ f.pc = "editMessage"
  /\ IF ~ok THEN Return(f, Fails(f, "editMessage"))
     ELSE IF ~editMessage(messages, f.a, f.userId) THEN Return(f, Fails(f, EditMessageError))
     ELSE LET updatedMessage == MessageById(messages, f.a)
              recipientId == IF updatedMessage.sender_id = f.userId
                             THEN updatedMessage.receiver_id
                             ELSE updatedMessage.sender_id
          IN Return(f, Completed(f.op, f.sock, f.userId, f.a, f.b, <<AckOk>>,
                       <<Emit("chat:message-edited", f.sock, f.a)>>
                         \o <<Emit("chat:message-edited", Broadcast, f.a)>>,
                       <<>>))
  /\ UNCHANGED <<registry, directStore, groupStore>>

\* On return: the callback, chat:message-edited to the caller's socket and to
\* the socket of the other party, if bound.
ChatEditMessageEnd(f, ok) ==
  /\ TurnEnded
  /\ f \in frames /\ f.op = "chat:edit-message" /\ f.pc = "editMessage"
  /\ IF ~ok THEN Return(f, Fails(f, "editMessage"))
     ELSE IF ~editMessage(messages, f.a, f.userId) THEN Return(f, Fails(f, EditMessageError))
     ELSE LET updatedMessage == MessageById(messages, f.a)
              recipientId == IF updatedMessage.sender_id = f.userId
                             THEN updatedMessage.receiver_id
                             ELSE updatedMessage.sender_id
          IN Return(f, Completed(f.op, f.sock, f.userId, f.a, f.b, <<AckOk>>,
                       <<Emit("chat:message-edited", f.sock, f.a)>>
                         \o EmitIfBound("chat:message-edited",
                                        MapGet(connectedUsers, recipientId), f.a),
                       <<>>))
  /\ UNCHANGED <<registry, directStore, groupStore>>

\* ---------------------------------------------------- chat:load-history
\* A payload field that is missing or is no number: parseInt gives NaN.
Undefined == -2
NaN == -3

parseInt(x) == IF x = Undefined THEN NaN ELSE x

isNaN(x) == x = NaN

\* The request carries contactId and neither limit nor offset (50 and 0).
\* Completed: b is the number of messages handed to the callback.
ChatLoadHistoryBegin(c, contactId) ==
  LET userId == getUserIdBySocketId(c)
      f == Frame("chat:load-history", c, userId, parseInt(contactId), NoArg,
                 "getChatHistory") IN
  /\ TurnEnded
  /\ sockets[c] = "open"
  /\ IF userId = NoUser THEN Finish(NotAuthenticated(f.op, c))
     ELSE IF isNaN(parseInt(contactId))
     THEN Finish(Completed(f.op, c, userId, NoArg, NoArg,
                           <<AckErr("Parametros invalidos")>>, <<>>, <<>>))
     ELSE Suspend(f)
  /\ UNCHANGED <<registry, directStore, groupStore>>

\* getConversationHistory throws on ids and bounds that are not positive
\* integers before it queries.
ChatLoadHistoryEnd(f, ok) ==
  LET rows == getConversationHistory(messages, f.userId, f.a, DefaultLimit, 0) IN
  /\ TurnEnded
  /\ f \in frames /\ f.op = "chat:load-history" /\ f.pc = "getChatHistory"
  /\ IF f.userId <= 0 \/ f.a <= 0
     THEN Return(f, Fails(f, "Parametros invalidos para getConversationHistory"))
     ELSE IF ~ok THEN Return(f, Fails(f, "getConversationHistory"))
     ELSE Return(f, Completed(f.op, f.sock, f.userId, f.a, Len(rows), <<AckOk>>,
                              <<>>, <<>>))
  /\ UNCHANGED <<registry, directStore, groupStore>>

\* ---------------------------------------------------- chat:mark-as-read
\* UPDATE messages SET is_read = 1 WHERE receiver_id = ? AND sender_id = ? AND is_read = 0
markAsRead(msgs, receiverId, senderId) ==
  [i \in 1..Len(msgs) |->
     IF msgs[i].receiver_id = receiverId /\ msgs[i].sender_id = senderId
     THEN [msgs[i] EXCEPT !.is_read = TRUE]
     ELSE msgs[i]]

\* UPDATE conversations SET <the caller's column> = 0 WHERE the pair matches.
resetUnreadCount(convs, userId, contactId) ==
  [i \in 1..Len(convs) |->
     IF SamePair(convs[i], userId, contactId)
     THEN IF userId = SmallerId(userId, contactId)
          THEN [convs[i] EXCEPT !.unread_count_user1 = 0]
          ELSE [convs[i] EXCEPT !.unread_count_user2 = 0]
     ELSE convs[i]]

ChatMarkAsReadBegin(c, senderId) ==
  LET userId == getUserIdBySocketId(c)
      f == Frame("chat:mark-as-read", c, userId, senderId, NoArg, "markMessagesAsRead") IN
  /\ TurnEnded
  /\ sockets[c] = "open"
  /\ IF userId = NoUser THEN Finish(NotAuthenticated(f.op, c)) ELSE Suspend(f)
  /\ UNCHANGED <<registry, directStore, groupStore>>

\* markMessagesAsRead: markAsRead, then resetUnreadCount; on return
\* chat:messages-read to the sender's socket, if bound, then the callback.
MarkAsReadFailPoints == {"markAsRead", "resetUnreadCount", "none"}

ChatMarkAsReadEnd(f, failAt) ==
  /\ TurnEnded
  /\ f \in frames /\ f.op = "chat:mark-as-read" /\ f.pc = "markMessagesAsRead"
  /\ messages' = IF failAt # "markAsRead" THEN markAsRead(messages, f.userId, f.a)
                 ELSE messages
  /\ conversations' = IF failAt = "none" THEN resetUnreadCount(conversations, f.userId, f.a)
                      ELSE conversations
  /\ IF failAt # "none" THEN Return(f, Fails(f, failAt))
     ELSE Return(f, Completed(f.op, f.sock, f.userId, f.a, f.b, <<AckOk>>,
                    EmitIfBound("chat:messages-read", MapGet(connectedUsers, f.a), f.userId),
                    <<>>))
  /\ UNCHANGED <<registry, nextMessageId, groupStore>>

\* -------------------------------------------------- chat:delete-message
\* deleteMessage(messageId, userId): SELECT the row ('Mensaje no encontrado'
\* when there is none); set the caller's deleted flag, if the caller is a party;
\* SELECT the flags; DELETE the row when both are set.  failAt names the query
\* that the store fails.
DeleteMessageFailPoints == {"SELECT", "SELECT deleted_by", "DELETE", "none"}

SetDeletedBy(msgs, messageId, userId) ==
  [i \in 1..Len(msgs) |->
     IF msgs[i].id # messageId THEN msgs[i]
     ELSE IF msgs[i].sender_id = userId THEN [msgs[i] EXCEPT !.deleted_by_sender = TRUE]
     ELSE IF msgs[i].receiver_id = userId THEN [msgs[i] EXCEPT !.deleted_by_receiver = TRUE]
     ELSE msgs[i]]

PurgeDeleted(msgs, messageId) ==
  SelectSeq(msgs, LAMBDA r :
    ~(r.id = messageId /\ r.deleted_by_sender /\ r.deleted_by_receiver))

deleteMessage(msgs, messageId, userId, failAt) ==
  IF failAt = "SELECT" \/ ~HasMessage(msgs, messageId) THEN msgs
  ELSE IF failAt \in {"SELECT deleted_by", "DELETE"} THEN SetDeletedBy(msgs, messageId, userId)
  ELSE PurgeDeleted(SetDeletedBy(msgs, messageId, userId), messageId)

\* DELETE runs, and can fail, when both flags are set.
DeleteMessageError(msgs, messageId, userId, failAt) ==
  IF failAt = "SELECT" THEN failAt
  ELSE IF ~HasMessage(msgs, messageId) THEN "Mensaje no encontrado"
  ELSE IF failAt = "SELECT deleted_by" THEN failAt
  ELSE IF failAt = "DELETE" /\ PurgeDeleted(SetDeletedBy(msgs, messageId, userId), messageId)
                                 # SetDeletedBy(msgs, messageId, userId)
  THEN failAt
  ELSE "none"

\* Frame: a is the message id, b is 1 when data.deleteForAll is set.
ChatDeleteMessageBegin(c, messageId, deleteForAll) ==
  LET userId == getUserIdBySocketId(c)
      f == Frame("chat:delete-message", c, userId, messageId,
                 IF deleteForAll THEN 1 ELSE NoArg, "deleteMessage") IN
  /\ TurnEnded
  /\ sockets[c] = "open"
  /\ IF userId = NoUser THEN Finish(NotAuthenticated(f.op, c)) ELSE Suspend(f)
  /\ UNCHANGED <<registry, directStore, groupStore>>

\* The handler with io.emit on both branches.
ChatDeleteMessageEndToAll(f, failAt) ==
  LET e == DeleteMessageError(messages, f.a, f.userId, failAt) IN
  /\ TurnEnded
  /\ f \in frames /\ f.op = "chat:delete-message" /\ f.pc = "deleteMessage"
  /\ messages' = IF e = "none" THEN deleteMessage(messages, f.a, f.userId, "none")
                 ELSE deleteMessage(messages, f.a, f.userId, failAt)
  /\ IF e # "none" THEN Return(f, Fails(f, e))
     ELSE Return(f, Completed(f.op, f.sock, f.userId, f.a, f.b, <<AckOk>>,
                    <<Emit("chat:message-deleted",
                           Broadcast, f.a)>>,
                    <<>>))
  /\ UNCHANGED <<registry, conversations, nextMessageId, groupStore>>

\* The service takes (messageId, userId); the handler's third argument is
\* dropped.  On return the callback, then chat:message-deleted to everyone when
\* deleteForAll is set, to the caller's socket otherwise.
ChatDeleteMessageEnd(f, failAt) ==
  LET e == DeleteMessageError(messages, f.a, f.userId, failAt) IN
  /\ TurnEnded
  /\ f \in frames /\ f.op = "chat:delete-message" /\ f.pc = "deleteMessage"
  /\ messages' = IF e = "none" THEN deleteMessage(messages, f.a, f.userId, "none")
                 ELSE deleteMessage(messages, f.a, f.userId, failAt)
  /\ IF e # "none" THEN Return(f, Fails(f, e))
     ELSE Return(f, Completed(f.op, f.sock, f.userId, f.a, f.b, <<AckOk>>,
                    <<Emit("chat:message-deleted",
                           IF f.b # NoArg THEN Broadcast ELSE f.sock, f.a)>>,
                    <<>>))
  /\ UNCHANGED <<registry, conversations, nextMessageId, groupStore>>

\* ------------------------------------------------ chat:get-unread-count
\* SELECT COUNT(*) ... WHERE receiver_id = ? AND is_read = 0 AND
\* deleted_by_receiver = 0 [AND sender_id = ?]
getUnreadCount(msgs, userId, senderId) ==
  Len(SelectSeq(msgs, LAMBDA r :
        /\ r.receiver_id = userId /\ ~r.is_read /\ ~r.deleted_by_receiver
        /\ (senderId # NoArg => r.sender_id = senderId)))

\* Frame: a is data.senderId, NoArg when the request has none.
\* Completed: b is the count handed to the callback.
ChatGetUnreadCountBegin(c, senderId) ==
  LET userId == getUserIdBySocketId(c)
      f == Frame("chat:get-unread-count", c, userId, senderId, NoArg, "getUnreadCount") IN
  /\ TurnEnded
  /\ sockets[c] = "open"
  /\ IF userId = NoUser THEN Finish(NotAuthenticated(f.op, c)) ELSE Suspend(f)
  /\ UNCHANGED <<registry, directStore, groupStore>>

ChatGetUnreadCountEnd(f, ok) ==
  /\ TurnEnded
  /\ f \in frames /\ f.op = "chat:get-unread-count" /\ f.pc = "getUnreadCount"
  /\ IF ~ok THEN Return(f, Fails(f, "getUnreadCount"))
     ELSE Return(f, Completed(f.op, f.sock, f.userId, f.a,
                              getUnreadCount(messages, f.userId, f.a), <<AckOk>>,
                              <<>>, <<>>))
  /\ UNCHANGED <<registry, directStore, groupStore>>

InFlightAt(op, pcs) == Cardinality({g \in frames : g.op = op /\ g.pc \in pcs})

\* ------------------------------------- chat.service.ts, query by query
\* The calls of ChatService that write the direct store, one step per query:
\* another call's query may run between two queries of a call.  A frame of a
\* service call has no socket; userId is the user the call acts for.
MaxSent == 2

SentIds == 1..MaxSent

ServiceFrame(op, u, a, pc) == Frame(op, NoSocket, u, a, NoArg, pc)

Returned(f) ==
  Completed(f.op, NoSocket, f.userId, f.a, f.b, <<>>, <<>>, <<>>)

Throws(f, e) == Threw(Returned(f), e)

\* sendMessage(data): the validations, then messageRepository.create.
sendMessageBegin(senderId, receiverId, content) ==
  LET f == ServiceFrame("sendMessage", senderId, receiverId, "create")
      rejected == SendMessageRejects(senderId, receiverId, content) IN
  /\ TurnEnded
  /\ IF rejected # "none" THEN Finish(Throws(f, rejected))
     ELSE /\ nextMessageId + InFlightAt("sendMessage", {"create"}) <= MaxSent
          /\ Suspend(f)
  /\ UNCHANGED <<registry, directStore, groupStore>>

\* create: INSERT INTO messages, then SELECT the row by its insertId.
CreateFailPoints == {"INSERT messages", "SELECT messages", "none"}

sendMessageCreate(f, failAt) ==
  /\ TurnEnded
  /\ f \in frames /\ f.op = "sendMessage" /\ f.pc = "create"
  /\ messages' = IF failAt # "INSERT messages"
                 THEN create(messages, nextMessageId, f.userId, f.a)
                 ELSE messages
  /\ nextMessageId' = IF failAt # "INSERT messages" THEN nextMessageId + 1
                      ELSE nextMessageId
  /\ IF failAt # "none" THEN Return(f, Throws(f, failAt))
     ELSE Resume(f, [f EXCEPT !.b = nextMessageId, !.pc = "SELECT conversations"])
  /\ UNCHANGED <<registry, conversations, groupStore>>

\* createOrUpdate: SELECT id FROM conversations WHERE the pair matches; the
\* UPDATE or the INSERT that follows is chosen by what this SELECT returned.
createOrUpdateSelect(f, ok) ==
  LET existing == SelectSeq(conversations, LAMBDA r : SamePair(r, f.userId, f.a)) IN
  /\ TurnEnded
  /\ f \in frames /\ f.op = "sendMessage" /\ f.pc = "SELECT conversations"
  /\ IF ~ok THEN Return(f, Throws(f, f.pc))
     ELSE Resume(f, [f EXCEPT !.pc = IF Len(existing) > 0
                                     THEN "UPDATE conversations"
                                     ELSE "INSERT conversations"])
  /\ UNCHANGED <<registry, directStore, groupStore>>

createOrUpdateWrite(f, ok) ==
  /\ TurnEnded
  /\ f \in frames /\ f.op = "sendMessage"
  /\ f.pc \in {"UPDATE conversations", "INSERT conversations"}
  /\ conversations' =
       IF ~ok THEN conversations
       ELSE IF f.pc = "UPDATE conversations"
       THEN UpdateConversation(conversations, f.userId, f.a, f.b)
       ELSE InsertConversation(conversations, f.userId, f.a, f.b)
  /\ IF ~ok THEN Return(f, Throws(f, f.pc))
     ELSE Resume(f, [f EXCEPT !.pc = "incrementUnreadCount"])
  /\ UNCHANGED <<registry, messages, nextMessageId, groupStore>>

sendMessageIncrementUnreadCount(f, ok) ==
  /\ TurnEnded
  /\ f \in frames /\ f.op = "sendMessage" /\ f.pc = "incrementUnreadCount"
  /\ conversations' = IF ok THEN incrementUnreadCount(conversations, f.a, f.userId)
                      ELSE conversations
  /\ Return(f, IF ok THEN Returned(f) ELSE Throws(f, f.pc))
  /\ UNCHANGED <<registry, messages, nextMessageId, groupStore>>

\* markMessagesAsRead(receiverId, senderId): markAsRead, then resetUnreadCount.
markMessagesAsReadBegin(receiverId, senderId) ==
  /\ TurnEnded
  /\ Suspend(ServiceFrame("markMessagesAsRead", receiverId, senderId, "markAsRead"))
  /\ UNCHANGED <<registry, directStore, groupStore>>

markMessagesAsReadMarkAsRead(f, ok) ==
  /\ TurnEnded
  /\ f \in frames /\ f.op = "markMessagesAsRead" /\ f.pc = "markAsRead"
  /\ messages' = IF ok THEN markAsRead(messages, f.userId, f.a) ELSE messages
  /\ IF ~ok THEN Return(f, Throws(f, f.pc))
     ELSE Resume(f, [f EXCEPT !.pc = "resetUnreadCount"])
  /\ UNCHANGED <<registry, conversations, nextMessageId, groupStore>>

markMessagesAsReadResetUnreadCount(f, ok) ==
  /\ TurnEnded
  /\ f \in frames /\ f.op = "markMessagesAsRead" /\ f.pc = "resetUnreadCount"
  /\ conversations' = IF ok THEN resetUnreadCount(conversations, f.userId, f.a)
                      ELSE conversations
  /\ Return(f, IF ok THEN Returned(f) ELSE Throws(f, f.pc))
  /\ UNCHANGED <<registry, messages, nextMessageId, groupStore>>

\* deleteMessage(messageId, userId): SELECT sender_id, receiver_id of the row.
deleteMessageBegin(messageId, userId) ==
  /\ TurnEnded
  /\ Suspend(ServiceFrame("deleteMessage", userId, messageId, "SELECT"))
  /\ UNCHANGED <<registry, directStore, groupStore>>

\* No row: 'Mensaje no encontrado'.  The UPDATE of the caller's flag follows
\* when the caller is the sender or the receiver, the SELECT of the flags
\* otherwise.
deleteMessageSelect(f, ok) ==
  /\ TurnEnded
  /\ f \in frames /\ f.op = "deleteMessage" /\ f.pc = "SELECT"
  /\ IF ~ok THEN Return(f, Throws(f, f.pc))
     ELSE IF ~HasMessage(messages, f.a) THEN Return(f, Throws(f, "Mensaje no encontrado"))
     ELSE Resume(f, [f EXCEPT !.pc =
            IF MessageById(messages, f.a).sender_id = f.userId
            THEN "UPDATE deleted_by_sender"
            ELSE IF MessageById(messages, f.a).receiver_id = f.userId
            THEN "UPDATE deleted_by_receiver"
            ELSE "SELECT deleted_by"])
  /\ UNCHANGED <<registry, directStore, groupStore>>

\* The flag of the other side.
SetFlagOfOtherSide(msgs, messageId, pc) ==
  [i \in 1..Len(msgs) |->
     IF msgs[i].id # messageId THEN msgs[i]
     ELSE IF pc = "UPDATE deleted_by_sender"
     THEN [msgs[i] EXCEPT !.deleted_by_receiver = TRUE]
     ELSE [msgs[i] EXCEPT !.deleted_by_sender = TRUE]]

\* UPDATE messages SET deleted_by_<side> = 1 WHERE id = ?
SetFlag(msgs, messageId, pc) ==
  [i \in 1..Len(msgs) |->
     IF msgs[i].id # messageId THEN msgs[i]
     ELSE IF pc = "UPDATE deleted_by_sender"
     THEN [msgs[i] EXCEPT !.deleted_by_sender = TRUE]
     ELSE [msgs[i] EXCEPT !.deleted_by_receiver = TRUE]]

deleteMessageUpdate(f, ok) ==
  /\ TurnEnded
  /\ f \in frames /\ f.op = "deleteMessage"
  /\ f.pc \in {"UPDATE deleted_by_sender", "UPDATE deleted_by_receiver"}
  /\ messages' = IF ok THEN SetFlag(messages, f.a, f.pc) ELSE messages
  /\ IF ~ok THEN Return(f, Throws(f, f.pc))
     ELSE Resume(f, [f EXCEPT !.pc = "SELECT deleted_by"])
  /\ UNCHANGED <<registry, conversations, nextMessageId, groupStore>>

\* updated[0].deleted_by_sender && updated[0].deleted_by_receiver
BothDeleted(row) == row.deleted_by_sender /\ row.deleted_by_receiver

EitherDeleted(row) == row.deleted_by_sender \/ row.deleted_by_receiver

\* SELECT deleted_by_sender, deleted_by_receiver: reading updated[0] of an empty
\* result throws a TypeError; the DELETE follows when both flags are set.
deleteMessageSelectDeletedByEither(f, ok) ==
  /\ TurnEnded
  /\ f \in frames /\ f.op = "deleteMessage" /\ f.pc = "SELECT deleted_by"
  /\ IF ~ok THEN Return(f, Throws(f, f.pc))
     ELSE IF ~HasMessage(messages, f.a) THEN Return(f, Throws(f, "TypeError"))
     ELSE IF EitherDeleted(MessageById(messages, f.a))
     THEN Resume(f, [f EXCEPT !.pc = "DELETE"])
     ELSE Return(f, Returned(f))
  /\ UNCHANGED <<registry, directStore, groupStore>>

deleteMessageSelectDeletedBy(f, ok) ==
  /\ TurnEnded
  /\ f \in frames /\ f.op = "deleteMessage" /\ f.pc = "SELECT deleted_by"
  /\ IF ~ok THEN Return(f, Throws(f, f.pc))
     ELSE IF ~HasMessage(messages, f.a) THEN Return(f, Throws(f, "TypeError"))
     ELSE IF BothDeleted(MessageById(messages, f.a))
     THEN Resume(f, [f EXCEPT !.pc = "DELETE"])
     ELSE Return(f, Returned(f))
  /\ UNCHANGED <<registry, directStore, groupStore>>

\* DELETE FROM messages WHERE id = ?
deleteMessageDelete(f, ok) ==
  /\ TurnEnded
  /\ f \in frames /\ f.op = "deleteMessage" /\ f.pc = "DELETE"
  /\ messages' = IF ok THEN SelectSeq(messages, LAMBDA r : r.id # f.a) ELSE messages
  /\ Return(f, IF ok THEN Returned(f) ELSE Throws(f, f.pc))
  /\ UNCHANGED <<registry, conversations, nextMessageId, groupStore>>

\* --------------------------------------------------- group.repository.ts
MaxGroupMsgs == 1
MaxMemberRows == 3
NGroups == 1

GroupIds == 1..NGroups
GroupMessageIds == 1..MaxGroupMsgs

isGroupAdmin(grps, groupId, userId) ==
  \E i \in 1..Len(grps) : grps[i].id = groupId /\ grps[i].admin_user_id = userId

NoGroup == [id |-> NoArg, admin_user_id |-> NoUser, name |-> <<>>]

getGroupById(grps, groupId) ==
  IF \E i \in 1..Len(grps) : grps[i].id = groupId
  THEN grps[CHOOSE i \in 1..Len(grps) : grps[i].id = groupId]
  ELSE NoGroup

\* SELECT 1 FROM group_members WHERE group_id = ? AND user_id = ? AND left_at IS NULL
isActiveMember(rows, groupId, userId) ==
  \E i \in 1..Len(rows) :
    rows[i].group_id = groupId /\ rows[i].user_id = userId /\ ~rows[i].left

\* NOW() of an INSERT: later inserts get later times.
Now == Len(groupMembers) + Len(groupMessages) + 1

\* INSERT INTO group_members (group_id, user_id, added_by_user_id)
InsertMember(rows, groupId, userId, now) ==
  Append(rows, [group_id |-> groupId, user_id |-> userId, joined_at |-> now,
                left |-> FALSE])

\* DELETE FROM group_members WHERE ... AND left_at IS NULL
DeleteActive(rows, groupId, userId) ==
  SelectSeq(rows, LAMBDA r :
    ~(r.group_id = groupId /\ r.user_id = userId /\ ~r.left))

\* UPDATE group_members SET left_at = NOW() WHERE ... AND left_at IS NULL
MarkLeft(rows, groupId, userId) ==
  [i \in 1..Len(rows) |->
     IF rows[i].group_id = groupId /\ rows[i].user_id = userId /\ ~rows[i].left
     THEN [rows[i] EXCEPT !.left = TRUE]
     ELSE rows[i]]

\* removeMember returns false unless the caller is the admin, the target is not
\* the admin and the UPDATE changed a row.
removeMember(grps, rows, groupId, userId, removedByUserId) ==
  /\ isGroupAdmin(grps, groupId, removedByUserId)
  /\ getGroupById(grps, groupId).admin_user_id # userId
  /\ isActiveMember(rows, groupId, userId)

\* SELECT ... WHERE gm.group_id = ? AND gm.left_at IS NULL ORDER BY gm.joined_at ASC
getGroupMembers(rows, groupId) ==
  SelectSeq(rows, LAMBDA r : r.group_id = groupId /\ ~r.left)

NoTime == 0

\* SELECT joined_at ... AND left_at IS NULL ORDER BY joined_at DESC LIMIT 1
getMemberJoinedAt(rows, groupId, userId) ==
  LET mine == SelectSeq(rows, LAMBDA r :
                 r.group_id = groupId /\ r.user_id = userId /\ ~r.left)
  IN IF mine = <<>> THEN NoTime ELSE mine[Len(mine)].joined_at

createGroupMessage(gmsgs, id, groupId, senderId, now) ==
  Append(gmsgs, [id |-> id, group_id |-> groupId, sender_id |-> senderId,
                 timestamp |-> now, edited |-> FALSE, is_deleted_for_all |-> FALSE])

RECURSIVE Reverse(_)
Reverse(s) == IF s = <<>> THEN <<>> ELSE Append(Reverse(Tail(s)), Head(s))

\* SELECT ... WHERE gm.group_id = ? AND gm.timestamp >= ? AND
\* gm.is_deleted_for_all = 0 ORDER BY gm.timestamp DESC LIMIT ? OFFSET ?
getGroupMessages(gmsgs, joinedAt, groupId, limit, offset) ==
  LET rows == Reverse(SelectSeq(gmsgs, LAMBDA r :
                 /\ r.group_id = groupId
                 /\ r.timestamp >= joinedAt
                 /\ ~r.is_deleted_for_all))
      last == IF offset + limit < Len(rows) THEN offset + limit ELSE Len(rows)
  IN SubSeq(rows, offset + 1, last)

HasGroupMessage(gmsgs, messageId) == \E i \in 1..Len(gmsgs) : gmsgs[i].id = messageId

GroupMessageById(gmsgs, messageId) ==
  gmsgs[CHOOSE i \in 1..Len(gmsgs) : gmsgs[i].id = messageId]

\* checkRows.length === 0 || checkRows[0].sender_id !== data.userId
IsAuthor(gmsgs, messageId, userId) ==
  /\ HasGroupMessage(gmsgs, messageId)
  /\ GroupMessageById(gmsgs, messageId).sender_id = userId

\* UPDATE group_messages SET encrypted_content = ?, iv = ?, edited_at = NOW()
updateGroupMessage(gmsgs, messageId) ==
  [i \in 1..Len(gmsgs) |->
     IF gmsgs[i].id = messageId THEN [gmsgs[i] EXCEPT !.edited = TRUE] ELSE gmsgs[i]]

\* UPDATE group_messages SET is_deleted_for_all = 1, deleted_at = NOW()
deleteGroupMessage(gmsgs, messageId) ==
  [i \in 1..Len(gmsgs) |->
     IF gmsgs[i].id = messageId
     THEN [gmsgs[i] EXCEPT !.is_deleted_for_all = TRUE]
     ELSE gmsgs[i]]

\* INSERT INTO group_message_reads ... ON DUPLICATE KEY UPDATE read_at = NOW()
markMessageAsRead(reads, groupMessageId, userId) ==
  reads \cup {[group_message_id |-> groupMessageId, user_id |-> userId]}

\* ------------------------------------ group.service.ts, query by query
\* The calls of GroupService that create groups, change membership, send and
\* read messages, one step per query (a transaction is one step, at its commit).
MaxGroups == 2
MaxRows == 4
MaxGroupSent == 2
MaxNameLength == 100
DefaultGroupName == <<"h", "i">>

\* createGroup(data): the name must not be empty after trim and not longer
\* than 100; then the repository's transaction.  Frame: b the name.
createGroupBegin(adminUserId, name) ==
  LET f == [ServiceFrame("createGroup", adminUserId, NoArg, "transaction")
              EXCEPT !.b = name] IN
  /\ TurnEnded
  /\ IF Len(trim(name)) = 0
     THEN Finish(Throws(f, "El nombre del grupo no puede estar vacio"))
     ELSE IF Len(name) > MaxNameLength
     THEN Finish(Throws(f, "El nombre del grupo no puede exceder 100 caracteres"))
     ELSE /\ Len(groups) + InFlightAt("createGroup", {"transaction"}) < MaxGroups
          /\ Len(groupMembers) + InFlightAt("createGroup", {"transaction"})
               + InFlightAt("addMember", {"isGroupAdmin", "getGroupById",
                                          "isActiveMember", "INSERT group_members"})
               < MaxRows
          /\ Suspend(f)
  /\ UNCHANGED <<registry, directStore, groupStore>>

\* INSERT INTO groups, INSERT INTO group_members (the admin), commit: both rows
\* or, when a query or the commit throws, neither.
CreateGroupFailPoints == {"INSERT groups", "INSERT group_members", "commit", "none"}

\* The two INSERTs outside a transaction: a failure of the second INSERT or of
\* the commit leaves the group row.
createGroupAutocommit(f, failAt) ==
  LET groupId == Len(groups) + 1 IN
  /\ TurnEnded
  /\ f \in frames /\ f.op = "createGroup" /\ f.pc = "transaction"
  /\ groups' = IF failAt # "INSERT groups"
               THEN Append(groups, [id |-> groupId, admin_user_id |-> f.userId, name |-> f.b])
               ELSE groups
  /\ groupMembers' = IF failAt \in {"commit", "none"}
                     THEN InsertMember(groupMembers, groupId, f.userId, Now)
                     ELSE groupMembers
  /\ IF failAt # "none" THEN Return(f, Throws(f, failAt))
     ELSE Resume(f, [f EXCEPT !.a = groupId, !.pc = "getGroupById"])
  /\ UNCHANGED <<registry, directStore, groupMessages, groupReads>>

createGroupTransaction(f, failAt) ==
  LET groupId == Len(groups) + 1 IN
  /\ TurnEnded
  /\ f \in frames /\ f.op = "createGroup" /\ f.pc = "transaction"
  /\ groups' = IF failAt = "none"
               THEN Append(groups, [id |-> groupId, admin_user_id |-> f.userId, name |-> f.b])
               ELSE groups
  /\ groupMembers' = IF failAt = "none"
                     THEN InsertMember(groupMembers, groupId, f.userId, Now)
                     ELSE groupMembers
  /\ IF failAt # "none" THEN Return(f, Throws(f, failAt))
     ELSE Resume(f, [f EXCEPT !.a = groupId, !.pc = "getGroupById"])
  /\ UNCHANGED <<registry, directStore, groupMessages, groupReads>>

createGroupSelect(f, ok) ==
  /\ TurnEnded
  /\ f \in frames /\ f.op = "createGroup" /\ f.pc = "getGroupById"
  /\ Return(f, IF ok THEN Returned(f) ELSE Throws(f, f.pc))
  /\ UNCHANGED <<registry, directStore, groupStore>>

\* updateGroup(groupId, data, adminUserId): isGroupAdmin, then UPDATE groups SET
\* name, description, avatar_url (no other column), then getGroupById.
\* data carries a name.  Frame: a the group, b the name.
updateGroupBegin(groupId, name, adminUserId) ==
  /\ TurnEnded
  /\ Suspend([ServiceFrame("updateGroup", adminUserId, groupId, "isGroupAdmin")
               EXCEPT !.b = name])
  /\ UNCHANGED <<registry, directStore, groupStore>>

updateGroupIsGroupAdmin(f, ok) ==
  /\ TurnEnded
  /\ f \in frames /\ f.op = "updateGroup" /\ f.pc = "isGroupAdmin"
  /\ IF ~ok THEN Return(f, Throws(f, f.pc))
     ELSE IF ~isGroupAdmin(groups, f.a, f.userId)
     THEN Return(f, Throws(f, "No tienes permisos para editar este grupo o el grupo no existe"))
     ELSE Resume(f, [f EXCEPT !.pc = "UPDATE groups"])
  /\ UNCHANGED <<registry, directStore, groupStore>>

\* UPDATE groups SET name = ? WHERE id = ?
updateGroup(grps, groupId, name) ==
  [i \in 1..Len(grps) |->
     IF grps[i].id = groupId THEN [grps[i] EXCEPT !.name = name] ELSE grps[i]]

UpdateGroupFailPoints == {"UPDATE groups", "getGroupById", "none"}

updateGroupUpdate(f, failAt) ==
  /\ TurnEnded
  /\ f \in frames /\ f.op = "updateGroup" /\ f.pc = "UPDATE groups"
  /\ groups' = IF failAt # "UPDATE groups" THEN updateGroup(groups, f.a, f.b)
               ELSE groups
  /\ Return(f, IF failAt = "none" THEN Returned(f) ELSE Throws(f, failAt))
  /\ UNCHANGED <<registry, directStore, groupMembers, groupMessages, groupReads>>

\* addMember(data): isGroupAdmin and getGroupById in the service, then the
\* repository's isActiveMember and INSERT.  Frame: a the group, b the user to add.
addMemberBegin(groupId, userId, addedByUserId) ==
  LET f == [ServiceFrame("addMember", addedByUserId, groupId, "isGroupAdmin")
              EXCEPT !.b = userId] IN
  /\ TurnEnded
  /\ Len(groupMembers) + InFlightAt("createGroup", {"transaction"})
       + InFlightAt("addMember", {"isGroupAdmin", "getGroupById",
                                  "isActiveMember", "INSERT group_members"})
       < MaxRows
  /\ Suspend(f)
  /\ UNCHANGED <<registry, directStore, groupStore>>

addMemberIsGroupAdmin(f, ok) ==
  /\ TurnEnded
  /\ f \in frames /\ f.op = "addMember" /\ f.pc = "isGroupAdmin"
  /\ IF ~ok THEN Return(f, Throws(f, f.pc))
     ELSE IF ~isGroupAdmin(groups, f.a, f.userId)
     THEN Return(f, Throws(f, "Solo el administrador puede agregar miembros"))
     ELSE Resume(f, [f EXCEPT !.pc = "getGroupById"])
  /\ UNCHANGED <<registry, directStore, groupStore>>

addMemberGetGroupById(f, ok) ==
  /\ TurnEnded
  /\ f \in frames /\ f.op = "addMember" /\ f.pc = "getGroupById"
  /\ IF ~ok THEN Return(f, Throws(f, f.pc))
     ELSE IF getGroupById(groups, f.a) = NoGroup
     THEN Return(f, Throws(f, "El grupo no existe"))
     ELSE Resume(f, [f EXCEPT !.pc = "isActiveMember"])
  /\ UNCHANGED <<registry, directStore, groupStore>>

addMemberIsActiveMember(f, ok) ==
  /\ TurnEnded
  /\ f \in frames /\ f.op = "addMember" /\ f.pc = "isActiveMember"
  /\ IF ~ok THEN Return(f, Throws(f, f.pc))
     ELSE IF isActiveMember(groupMembers, f.a, f.b)
     THEN Return(f, Throws(f, "El usuario ya es miembro activo del grupo"))
     ELSE Resume(f, [f EXCEPT !.pc = "INSERT group_members"])
  /\ UNCHANGED <<registry, directStore, groupStore>>

\* INSERT INTO group_members, then the SELECT of the added row.
AddMemberFailPoints == {"INSERT group_members", "SELECT group_members", "none"}

addMemberInsert(f, failAt) ==
  /\ TurnEnded
  /\ f \in frames /\ f.op = "addMember" /\ f.pc = "INSERT group_members"
  /\ groupMembers' = IF failAt # "INSERT group_members"
                     THEN InsertMember(groupMembers, f.a, f.b, Now)
                     ELSE groupMembers
  /\ Return(f, IF failAt = "none" THEN Returned(f) ELSE Throws(f, failAt))
  /\ UNCHANGED <<registry, directStore, groups, groupMessages, groupReads>>

\* removeMember(data): isGroupAdmin (false: return false), getGroupById (the
\* target is the admin: return false), UPDATE group_members SET left_at = NOW();
\* the service throws when the repository returns false.
RemoveMemberError == "No tienes permisos para remover miembros o el miembro no existe"

removeMemberBegin(groupId, userId, removedByUserId) ==
  LET f == [ServiceFrame("removeMember", removedByUserId, groupId, "isGroupAdmin")
              EXCEPT !.b = userId] IN
  /\ TurnEnded
  /\ Suspend(f)
  /\ UNCHANGED <<registry, directStore, groupStore>>

removeMemberIsGroupAdmin(f, ok) ==
  /\ TurnEnded
  /\ f \in frames /\ f.op = "removeMember" /\ f.pc = "isGroupAdmin"
  /\ IF ~ok THEN Return(f, Throws(f, f.pc))
     ELSE IF ~isGroupAdmin(groups, f.a, f.userId)
     THEN Return(f, Throws(f, RemoveMemberError))
     ELSE Resume(f, [f EXCEPT !.pc = "getGroupById"])
  /\ UNCHANGED <<registry, directStore, groupStore>>

removeMemberGetGroupByIdAnyTarget(f, ok) ==
  /\ TurnEnded
  /\ f \in frames /\ f.op = "removeMember" /\ f.pc = "getGroupById"
  /\ IF ~ok THEN Return(f, Throws(f, f.pc))
     ELSE Resume(f, [f EXCEPT !.pc = "UPDATE group_members"])
  /\ UNCHANGED <<registry, directStore, groupStore>>

removeMemberGetGroupById(f, ok) ==
  /\ TurnEnded
  /\ f \in frames /\ f.op = "removeMember" /\ f.pc = "getGroupById"
  /\ IF ~ok THEN Return(f, Throws(f, f.pc))
     ELSE IF getGroupById(groups, f.a).admin_user_id = f.b
     THEN Return(f, Throws(f, RemoveMemberError))
     ELSE Resume(f, [f EXCEPT !.pc = "UPDATE group_members"])
  /\ UNCHANGED <<registry, directStore, groupStore>>

\* result.affectedRows > 0
removeMemberUpdate(f, ok) ==
  /\ TurnEnded
  /\ f \in frames /\ f.op = "removeMember" /\ f.pc = "UPDATE group_members"
  /\ groupMembers' = IF ok THEN MarkLeft(groupMembers, f.a, f.b) ELSE groupMembers
  /\ Return(f, IF ~ok THEN Throws(f, f.pc)
               ELSE IF ~isActiveMember(groupMembers, f.a, f.b)
               THEN Throws(f, RemoveMemberError)
               ELSE Returned(f))
  /\ UNCHANGED <<registry, directStore, groups, groupMessages, groupReads>>

\* sendGroupMessage(data): the content must not be empty after trim; the
\* service's isActiveMember, the repository's isActiveMember, the INSERT.
\* Frame: a the group; b the id of the message, once inserted.
NotActiveMemberError == "No eres miembro activo de este grupo"

sendGroupMessageBegin(groupId, senderId, content) ==
  LET f == ServiceFrame("sendGroupMessage", senderId, groupId, "isActiveMember") IN
  /\ TurnEnded
  /\ IF Len(trim(content)) = 0
     THEN Finish(Throws(f, "El mensaje no puede estar vacio"))
     ELSE /\ Len(groupMessages) + InFlight("sendGroupMessage") < MaxGroupSent
          /\ Suspend(f)
  /\ UNCHANGED <<registry, directStore, groupStore>>

sendGroupMessageIsActiveMember(f, ok) ==
  /\ TurnEnded
  /\ f \in frames /\ f.op = "sendGroupMessage" /\ f.pc = "isActiveMember"
  /\ IF ~ok THEN Return(f, Throws(f, f.pc))
     ELSE IF ~isActiveMember(groupMembers, f.a, f.userId)
     THEN Return(f, Throws(f, NotActiveMemberError))
     ELSE Resume(f, [f EXCEPT !.pc = "createGroupMessage"])
  /\ UNCHANGED <<registry, directStore, groupStore>>

createGroupMessageIsActiveMember(f, ok) ==
  /\ TurnEnded
  /\ f \in frames /\ f.op = "sendGroupMessage" /\ f.pc = "createGroupMessage"
  /\ IF ~ok THEN Return(f, Throws(f, f.pc))
     ELSE IF ~isActiveMember(groupMembers, f.a, f.userId)
     THEN Return(f, Throws(f, NotActiveMemberError))
     ELSE Resume(f, [f EXCEPT !.pc = "INSERT group_messages"])
  /\ UNCHANGED <<registry, directStore, groupStore>>

\* INSERT INTO group_messages, then the SELECT of the inserted row.
CreateGroupMessageFailPoints == {"INSERT group_messages", "SELECT group_messages", "none"}

createGroupMessageInsert(f, failAt) ==
  LET id == Len(groupMessages) + 1 IN
  /\ TurnEnded
  /\ f \in frames /\ f.op = "sendGroupMessage" /\ f.pc = "INSERT group_messages"
  /\ groupMessages' = IF failAt # "INSERT group_messages"
                      THEN createGroupMessage(groupMessages, id, f.a, f.userId, Now)
                      ELSE groupMessages
  /\ Return(f, IF failAt = "none" THEN Returned([f EXCEPT !.b = id])
               ELSE Throws(f, failAt))
  /\ UNCHANGED <<registry, directStore, groups, groupMembers, groupReads>>

\* getGroupMessages(groupId, userId, limit, offset): getMemberJoinedAt (null:
\* 'No eres miembro de este grupo'), then the SELECT with that joinedAt.
\* Frame and Completed: a the group, b the joinedAt the first query returned.
getGroupMessagesBegin(groupId, userId) ==
  /\ TurnEnded
  /\ Suspend(ServiceFrame("getGroupMessages", userId, groupId, "getMemberJoinedAt"))
  /\ UNCHANGED <<registry, directStore, groupStore>>

getGroupMessagesJoinedAt(f, ok) ==
  LET joinedAt == getMemberJoinedAt(groupMembers, f.a, f.userId) IN
  /\ TurnEnded
  /\ f \in frames /\ f.op = "getGroupMessages" /\ f.pc = "getMemberJoinedAt"
  /\ IF ~ok THEN Return(f, Throws(f, f.pc))
     ELSE IF joinedAt = NoTime THEN Return(f, Throws(f, "No eres miembro de este grupo"))
     ELSE Resume(f, [f EXCEPT !.b = joinedAt, !.pc = "SELECT group_messages"])
  /\ UNCHANGED <<registry, directStore, groupStore>>

getGroupMessagesSelect(f, ok) ==
  /\ TurnEnded
  /\ f \in frames /\ f.op = "getGroupMessages" /\ f.pc = "SELECT group_messages"
  /\ Return(f, IF ok THEN Returned(f) ELSE Throws(f, f.pc))
  /\ UNCHANGED <<registry, directStore, groupStore>>

\* ------------------------------------------------------ group.service.ts
\* getGroupMembers(groupId, userId): the error it throws, "none" when it
\* returns the rows; failAt names the query that the store fails.
GetGroupMembersFailPoints == {"isActiveMember", "getGroupMembers", "none"}

GetGroupMembersError(groupId, userId, failAt) ==
  IF failAt = "isActiveMember" THEN failAt
  ELSE IF ~isActiveMember(groupMembers, groupId, userId)
  THEN "No eres miembro de este grupo"
  ELSE failAt

\* members.forEach: emit to the socket the registry holds for each member row,
\* but for the rows of user `skip`.
RECURSIVE EmitToMembers(_, _, _, _)
EmitToMembers(members, ev, key, skip) ==
  IF members = <<>> THEN <<>>
  ELSE (IF Head(members).user_id # skip
        THEN EmitIfBound(ev, MapGet(connectedUsers, Head(members).user_id), key)
        ELSE <<>>)
       \o EmitToMembers(Tail(members), ev, key, skip)

\* ---------------------------------------------------- group:send-message
\* Frame: a is the group id; b the id of the created message, once created.
GroupSendMessageBegin(c, groupId, content) ==
  LET userId == getUserIdBySocketId(c)
      f == Frame("group:send-message", c, userId, groupId, NoArg, "sendGroupMessage") IN
  /\ TurnEnded
  /\ sockets[c] = "open"
  /\ IF userId = NoUser THEN Finish(NotAuthenticated(f.op, c))
     ELSE IF Len(trim(content)) = 0
     THEN Finish(Fails(f, "El mensaje no puede estar vacio"))
     ELSE /\ Len(groupMessages) + InFlightAt(f.op, {f.pc}) < MaxGroupMsgs
          /\ Suspend(f)
  /\ UNCHANGED <<registry, directStore, groupStore>>

\* sendGroupMessage: isActiveMember in the service and again in the repository,
\* the INSERT, the SELECT of the created row.  A failure of a query up to the
\* INSERT leaves no row; a failure of the SELECT leaves the row.
GroupSendFailPoints == {"isActiveMember", "SELECT", "none"}

GroupSendMessageSend(f, failAt) ==
  LET id == Len(groupMessages) + 1
      member == isActiveMember(groupMembers, f.a, f.userId) IN
  /\ TurnEnded
  /\ f \in frames /\ f.op = "group:send-message" /\ f.pc = "sendGroupMessage"
  /\ groupMessages' = IF failAt # "isActiveMember" /\ member
                      THEN createGroupMessage(groupMessages, id, f.a, f.userId, Now)
                      ELSE groupMessages
  /\ IF failAt = "isActiveMember" THEN Return(f, Fails(f, failAt))
     ELSE IF ~member THEN Return(f, Fails(f, "No eres miembro activo de este grupo"))
     ELSE IF failAt = "SELECT" THEN Return(f, Fails(f, failAt))
     ELSE Resume(f, [f EXCEPT !.pc = "getGroupMembers", !.b = id, !.acks = <<AckOk>>])
  /\ UNCHANGED <<registry, directStore, groups, groupMembers, groupReads>>

\* After the callback: getGroupMembers(groupId, userId), then group:new-message
\* to every member row but the sender's.
GroupSendMessageEmits(f) ==
  EmitToMembers(getGroupMembers(groupMembers, f.a), "group:new-message", f.b, f.userId)

GroupSendMessageFanOut(f, failAt) ==
  LET e == GetGroupMembersError(f.a, f.userId, failAt) IN
  /\ TurnEnded
  /\ f \in frames /\ f.op = "group:send-message" /\ f.pc = "getGroupMembers"
  /\ IF e # "none" THEN Return(f, Fails(f, e))
     ELSE Return(f, Completed(f.op, f.sock, f.userId, f.a, f.b, f.acks,
                              f.emits \o GroupSendMessageEmits(f), f.writes))
  /\ UNCHANGED <<registry, directStore, groupStore>>

\* ---------------------------------------------------- group:edit-message
\* Frame: a is the message id; b the group id of the updated message.
GroupEditMessageBegin(c, messageId, newContent) ==
  LET userId == getUserIdBySocketId(c)
      f == Frame("group:edit-message", c, userId, messageId, NoArg, "editGroupMessage") IN
  /\ TurnEnded
  /\ sockets[c] = "open"
  /\ IF userId = NoUser THEN Finish(NotAuthenticated(f.op, c))
     ELSE IF Len(trim(newContent)) = 0
     THEN Finish(Fails(f, "El mensaje no puede estar vacio"))
     ELSE Suspend(f)
  /\ UNCHANGED <<registry, directStore, groupStore>>

\* updateGroupMessage: SELECT sender_id, the UPDATE, the SELECT of the row.  A
\* failure of the first two leaves the row as it was.
GroupEditFailPoints == {"SELECT sender_id", "SELECT", "none"}

GroupEditMessageUpdate(f, failAt) ==
  LET author == IsAuthor(groupMessages, f.a, f.userId) IN
  /\ TurnEnded
  /\ f \in frames /\ f.op = "group:edit-message" /\ f.pc = "editGroupMessage"
  /\ groupMessages' = IF failAt # "SELECT sender_id" /\ author
                      THEN updateGroupMessage(groupMessages, f.a)
                      ELSE groupMessages
  /\ IF failAt = "SELECT sender_id" THEN Return(f, Fails(f, failAt))
     ELSE IF ~author
     THEN Return(f, Fails(f, "No tienes permisos para editar este mensaje o el mensaje no existe"))
     ELSE IF failAt = "SELECT" THEN Return(f, Fails(f, failAt))
     ELSE Resume(f, [f EXCEPT !.pc = "getGroupMembers",
                              !.b = GroupMessageById(groupMessages, f.a).group_id,
                              !.acks = <<AckOk>>])
  /\ UNCHANGED <<registry, directStore, groups, groupMembers, groupReads>>

GroupEditMessageFanOut(f, failAt) ==
  LET e == GetGroupMembersError(f.b, f.userId, failAt) IN
  /\ TurnEnded
  /\ f \in frames /\ f.op = "group:edit-message" /\ f.pc = "getGroupMembers"
  /\ IF e # "none" THEN Return(f, Fails(f, e))
     ELSE Return(f, Completed(f.op, f.sock, f.userId, f.a, f.b, f.acks,
                      f.emits \o EmitToMembers(getGroupMembers(groupMembers, f.b),
                                               "group:message-edited", f.a, NoUser),
                      f.writes))
  /\ UNCHANGED <<registry, directStore, groupStore>>

\* -------------------------------------------------- group:delete-message
\* Frame: a is the message id; b the group id read from the message's row.
GroupDeleteMessageBegin(c, messageId) ==
  LET userId == getUserIdBySocketId(c)
      f == Frame("group:delete-message", c, userId, messageId, NoArg, "deleteGroupMessage") IN
  /\ TurnEnded
  /\ sockets[c] = "open"
  /\ IF userId = NoUser THEN Finish(NotAuthenticated(f.op, c)) ELSE Suspend(f)
  /\ UNCHANGED <<registry, directStore, groupStore>>

\* SELECT group_id (no row: 'Mensaje no encontrado'), then deleteGroupMessage:
\* SELECT sender_id and the UPDATE.  A failure of any leaves the row as it was.
GroupDeleteMessageDelete(f, ok) ==
  /\ TurnEnded
  /\ f \in frames /\ f.op = "group:delete-message" /\ f.pc = "deleteGroupMessage"
  /\ groupMessages' = IF ok /\ IsAuthor(groupMessages, f.a, f.userId)
                      THEN deleteGroupMessage(groupMessages, f.a)
                      ELSE groupMessages
  /\ IF ~ok THEN Return(f, Fails(f, "SELECT group_id"))
     ELSE IF ~HasGroupMessage(groupMessages, f.a)
     THEN Return(f, Completed(f.op, f.sock, f.userId, f.a, f.b,
                              <<AckErr("Mensaje no encontrado")>>, <<>>, <<>>))
     ELSE IF ~IsAuthor(groupMessages, f.a, f.userId)
     THEN Return(f, Fails(f, "No tienes permisos para eliminar este mensaje o el mensaje no existe"))
     ELSE Resume(f, [f EXCEPT !.pc = "getGroupMembers",
                              !.b = GroupMessageById(groupMessages, f.a).group_id,
                              !.acks = <<AckOk>>])
  /\ UNCHANGED <<registry, directStore, groups, groupMembers, groupReads>>

GroupDeleteMessageFanOut(f, failAt) ==
  LET e == GetGroupMembersError(f.b, f.userId, failAt) IN
  /\ TurnEnded
  /\ f \in frames /\ f.op = "group:delete-message" /\ f.pc = "getGroupMembers"
  /\ IF e # "none" THEN Return(f, Fails(f, e))
     ELSE Return(f, Completed(f.op, f.sock, f.userId, f.a, f.b, f.acks,
                      f.emits \o EmitToMembers(getGroupMembers(groupMembers, f.b),
                                               "group:message-deleted", f.a, NoUser),
                      f.writes))
  /\ UNCHANGED <<registry, directStore, groupStore>>

\* ---------------------------------------------------- group:load-history
\* The request carries no limit and no offset: `data.limit || 50`, `|| 0`.
\* Completed: b is the number of messages handed to the callback.
GroupLoadHistoryBegin(c, groupId) ==
  LET userId == getUserIdBySocketId(c)
      f == Frame("group:load-history", c, userId, groupId, NoArg, "getGroupMessages") IN
  /\ TurnEnded
  /\ sockets[c] = "open"
  /\ IF userId = NoUser THEN Finish(NotAuthenticated(f.op, c)) ELSE Suspend(f)
  /\ UNCHANGED <<registry, directStore, groupStore>>

GroupLoadHistoryEnd(f, ok) ==
  LET joinedAt == getMemberJoinedAt(groupMembers, f.a, f.userId)
      rows == getGroupMessages(groupMessages, joinedAt, f.a, DefaultLimit, 0) IN
  /\ TurnEnded
  /\ f \in frames /\ f.op = "group:load-history" /\ f.pc = "getGroupMessages"
  /\ IF ~ok THEN Return(f, Fails(f, "getMemberJoinedAt"))
     ELSE IF joinedAt = NoTime THEN Return(f, Fails(f, "No eres miembro de este grupo"))
     ELSE Return(f, Completed(f.op, f.sock, f.userId, f.a, Len(rows), <<AckOk>>,
                              <<>>, <<>>))
  /\ UNCHANGED <<registry, directStore, groupStore>>

\* ---------------------------------------------------- group:mark-as-read
GroupMarkAsReadBegin(c, groupMessageId) ==
  LET userId == getUserIdBySocketId(c)
      f == Frame("group:mark-as-read", c, userId, groupMessageId, NoArg,
                 "markGroupMessageAsRead") IN
  /\ TurnEnded
  /\ sockets[c] = "open"
  /\ IF userId = NoUser THEN Finish(NotAuthenticated(f.op, c)) ELSE Suspend(f)
  /\ UNCHANGED <<registry, directStore, groupStore>>

\* markMessageAsRead catches what the INSERT throws and returns false; the
\* handler does not look at what it returns.
GroupMarkAsReadEnd(f, ok) ==
  /\ TurnEnded
  /\ f \in frames /\ f.op = "group:mark-as-read" /\ f.pc = "markGroupMessageAsRead"
  /\ groupReads' = IF ok THEN markMessageAsRead(groupReads, f.a, f.userId) ELSE groupReads
  /\ Return(f, IF ok
               THEN Completed(f.op, f.sock, f.userId, f.a, f.b, <<AckOk>>, <<>>, <<>>)
               ELSE Threw(Completed(f.op, f.sock, f.userId, f.a, f.b, <<AckOk>>,
                                    <<>>, <<>>), "INSERT group_message_reads"))
  /\ UNCHANGED <<registry, directStore, groups, groupMembers, groupMessages>>

\* ------------------------------------------------------ group:add-member
\* Frame: a is the group id, b the user to add.
GroupAddMemberBegin(c, groupId, userIdToAdd) ==
  LET userId == getUserIdBySocketId(c)
      f == Frame("group:add-member", c, userId, groupId, userIdToAdd, "addMember") IN
  /\ TurnEnded
  /\ sockets[c] = "open"
  /\ IF userId = NoUser THEN Finish(NotAuthenticated(f.op, c))
     ELSE /\ Len(groupMembers) + InFlightAt(f.op, {"addMember", "INSERT"}) < MaxMemberRows
          /\ Suspend(f)
  /\ UNCHANGED <<registry, directStore, groupStore>>

\* isGroupAdmin, getGroupById, and the repository's isActiveMember: three reads.
GroupAddMemberCheck(f, ok) ==
  /\ TurnEnded
  /\ f \in frames /\ f.op = "group:add-member" /\ f.pc = "addMember"
  /\ IF ~ok THEN Return(f, Fails(f, "isGroupAdmin"))
     ELSE IF ~isGroupAdmin(groups, f.a, f.userId)
     THEN Return(f, Fails(f, "Solo el administrador puede agregar miembros"))
     ELSE IF getGroupById(groups, f.a) = NoGroup
     THEN Return(f, Fails(f, "El grupo no existe"))
     ELSE IF isActiveMember(groupMembers, f.a, f.b)
     THEN Return(f, Fails(f, "El usuario ya es miembro activo del grupo"))
     ELSE Resume(f, [f EXCEPT !.pc = "INSERT"])
  /\ UNCHANGED <<registry, directStore, groupStore>>

\* The INSERT, then the SELECT of the added row; on return the callback and
\* group:member-added to the added user's socket.
GroupAddMemberFailPoints == {"INSERT", "SELECT", "none"}

GroupAddMemberInsert(f, failAt) ==
  /\ TurnEnded
  /\ f \in frames /\ f.op = "group:add-member" /\ f.pc = "INSERT"
  /\ groupMembers' = IF failAt # "INSERT"
                     THEN InsertMember(groupMembers, f.a, f.b, Now)
                     ELSE groupMembers
  /\ IF failAt # "none" THEN Return(f, Fails(f, failAt))
     ELSE Resume(f, [f EXCEPT !.pc = "getGroupMembers", !.acks = <<AckOk>>,
                      !.emits = EmitIfBound("group:member-added",
                                            MapGet(connectedUsers, f.b), f.b)])
  /\ UNCHANGED <<registry, directStore, groups, groupMessages, groupReads>>

GroupAddMemberFanOut(f, failAt) ==
  LET e == GetGroupMembersError(f.a, f.userId, failAt) IN
  /\ TurnEnded
  /\ f \in frames /\ f.op = "group:add-member" /\ f.pc = "getGroupMembers"
  /\ IF e # "none" THEN Return(f, Fails(f, e))
     ELSE Return(f, Completed(f.op, f.sock, f.userId, f.a, f.b, f.acks,
                      f.emits \o EmitToMembers(getGroupMembers(groupMembers, f.a),
                                               "group:member-added", f.b, f.b),
                      f.writes))
  /\ UNCHANGED <<registry, directStore, groupStore>>

\* --------------------------------------------------- group:remove-member
\* Frame: a is the group id, b the user to remove.
GroupRemoveMemberBegin(c, groupId, userIdToRemove) ==
  LET userId == getUserIdBySocketId(c)
      f == Frame("group:remove-member", c, userId, groupId, userIdToRemove,
                 "removeMember") IN
  /\ TurnEnded
  /\ sockets[c] = "open"
  /\ IF userId = NoUser THEN Finish(NotAuthenticated(f.op, c)) ELSE Suspend(f)
  /\ UNCHANGED <<registry, directStore, groupStore>>

GroupRemoveMemberRemove(f, ok) ==
  LET removed == removeMember(groups, groupMembers, f.a, f.b, f.userId) IN
  /\ TurnEnded
  /\ f \in frames /\ f.op = "group:remove-member" /\ f.pc = "removeMember"
  /\ groupMembers' = IF ok /\ removed THEN MarkLeft(groupMembers, f.a, f.b)
                     ELSE groupMembers
  /\ IF ~ok THEN Return(f, Fails(f, "isGroupAdmin"))
     ELSE IF ~removed
     THEN Return(f, Fails(f, "No tienes permisos para remover miembros o el miembro no existe"))
     ELSE Resume(f, [f EXCEPT !.pc = "getGroupMembers", !.acks = <<AckOk>>,
                      !.emits = EmitIfBound("group:member-removed",
                                            MapGet(connectedUsers, f.b), f.b)])
  /\ UNCHANGED <<registry, directStore, groups, groupMessages, groupReads>>

GroupRemoveMemberFanOut(f, failAt) ==
  LET e == GetGroupMembersError(f.a, f.userId, failAt) IN
  /\ TurnEnded
  /\ f \in frames /\ f.op = "group:remove-member" /\ f.pc = "getGroupMembers"
  /\ IF e # "none" THEN Return(f, Fails(f, e))
     ELSE Return(f, Completed(f.op, f.sock, f.userId, f.a, f.b, f.acks,
                      f.emits \o EmitToMembers(getGroupMembers(groupMembers, f.a),
                                               "group:member-removed", f.b, NoUser),
                      f.writes))
  /\ UNCHANGED <<registry, directStore, groupStore>>

\* ------------------------------------------------------------ group specs
\* User 1 has created group 1 (createGroup inserts the group and its admin's
\* membership in one transaction); each user is bound to the socket of the same
\* number or to none.
Binding(S) ==
  LET ids == SelectSeq([i \in 1..NUsers |-> i], LAMBDA u : u \in S)
  IN [i \in 1..Len(ids) |-> [userId |-> ids[i], socketId |-> ids[i]]]

InitGroup ==
  /\ sockets = [c \in Sockets |-> "open"]
  /\ connectedUsers \in {Binding(S) : S \in SUBSET Users}
  /\ messages = <<>>
  /\ conversations = <<>>
  /\ nextMessageId = 1
  /\ groups = <<[id |-> 1, admin_user_id |-> 1, name |-> DefaultGroupName]>>
  /\ groupMembers = <<[group_id |-> 1, user_id |-> 1, joined_at |-> 1, left |-> FALSE]>>
  /\ groupMessages = <<>>
  /\ groupReads = {}
  /\ frames = {}
  /\ done = NoneDone

\* The turn that completed a handler ends.
EndTurn ==
  /\ ~TurnEnded
  /\ done' = NoneDone
  /\ UNCHANGED <<registry, directStore, groupStore, frames>>

NextRegistry ==
  \/ EndTurn
  \/ \E c \in Sockets, u \in Users : AuthenticateBegin(c, u)
  \/ \E f \in frames, ok \in BOOLEAN : AuthenticateEnd(f, ok)
  \/ \E c \in Sockets : DisconnectBegin(c)
  \/ \E f \in frames, ok \in BOOLEAN : DisconnectUpdateStatus(f, ok)
  \/ \E f \in frames, ok \in BOOLEAN : DisconnectUpdateLastSeen(f, ok)

NextDirect ==
  \/ NextRegistry
  \/ \E c \in Sockets, receiverId \in Users, content \in Contents :
        ChatSendMessageBegin(c, receiverId, content)
  \/ \E f \in frames, failAt \in SendMessageFailPoints : ChatSendMessageEnd(f, failAt)
  \/ \E c \in Sockets, from \in Users, to \in Users : LegacyMessageSend(c, from, to)

SpecRegistry == Init /\ [][NextRegistry]_vars

SpecDirect == Init /\ [][NextDirect]_vars

NextGroupOps ==
  \/ \E c \in Sockets, groupId \in GroupIds, content \in Contents :
        GroupSendMessageBegin(c, groupId, content)
  \/ \E f \in frames, failAt \in GroupSendFailPoints : GroupSendMessageSend(f, failAt)
  \/ \E f \in frames, failAt \in GetGroupMembersFailPoints : GroupSendMessageFanOut(f, failAt)
  \/ \E c \in Sockets, messageId \in GroupMessageIds, newContent \in Contents :
        GroupEditMessageBegin(c, messageId, newContent)
  \/ \E f \in frames, failAt \in GroupEditFailPoints : GroupEditMessageUpdate(f, failAt)
  \/ \E f \in frames, failAt \in GetGroupMembersFailPoints : GroupEditMessageFanOut(f, failAt)
  \/ \E c \in Sockets, messageId \in GroupMessageIds : GroupDeleteMessageBegin(c, messageId)
  \/ \E f \in frames, ok \in BOOLEAN : GroupDeleteMessageDelete(f, ok)
  \/ \E f \in frames, failAt \in GetGroupMembersFailPoints : GroupDeleteMessageFanOut(f, failAt)
  \/ \E c \in Sockets, groupId \in GroupIds : GroupLoadHistoryBegin(c, groupId)
  \/ \E f \in frames, ok \in BOOLEAN : GroupLoadHistoryEnd(f, ok)
  \/ \E c \in Sockets, groupMessageId \in GroupMessageIds : GroupMarkAsReadBegin(c, groupMessageId)
  \/ \E f \in frames, ok \in BOOLEAN : GroupMarkAsReadEnd(f, ok)
  \/ \E c \in Sockets, groupId \in GroupIds, userIdToAdd \in Users :
        GroupAddMemberBegin(c, groupId, userIdToAdd)
  \/ \E f \in frames, ok \in BOOLEAN : GroupAddMemberCheck(f, ok)
  \/ \E f \in frames, failAt \in GroupAddMemberFailPoints : GroupAddMemberInsert(f, failAt)
  \/ \E f \in frames, failAt \in GetGroupMembersFailPoints : GroupAddMemberFanOut(f, failAt)
  \/ \E c \in Sockets, groupId \in GroupIds, userIdToRemove \in Users :
        GroupRemoveMemberBegin(c, groupId, userIdToRemove)
  \/ \E f \in frames, ok \in BOOLEAN : GroupRemoveMemberRemove(f, ok)
  \/ \E f \in frames, failAt \in GetGroupMembersFailPoints : GroupRemoveMemberFanOut(f, failAt)

NextGroup == EndTurn \/ NextGroupOps

SpecGroup == InitGroup /\ [][NextGroup]_vars

\* ------------------------------------------------------- acknowledgements
NextChat ==
  \/ \E c \in Sockets, receiverId \in Users, content \in Contents :
        ChatSendMessageBegin(c, receiverId, content)
  \/ \E f \in frames, failAt \in SendMessageFailPoints : ChatSendMessageEnd(f, failAt)
  \/ \E c \in Sockets, messageId \in MessageIds, newContent \in Contents :
        ChatEditMessageBegin(c, messageId, newContent)
  \/ \E f \in frames, ok \in BOOLEAN : ChatEditMessageEnd(f, ok)
  \/ \E c \in Sockets, contactId \in Users \cup {Undefined} : ChatLoadHistoryBegin(c, contactId)
  \/ \E f \in frames, ok \in BOOLEAN : ChatLoadHistoryEnd(f, ok)
  \/ \E c \in Sockets, senderId \in Users : ChatMarkAsReadBegin(c, senderId)
  \/ \E f \in frames, failAt \in MarkAsReadFailPoints : ChatMarkAsReadEnd(f, failAt)
  \/ \E c \in Sockets, messageId \in MessageIds, deleteForAll \in BOOLEAN :
        ChatDeleteMessageBegin(c, messageId, deleteForAll)
  \/ \E f \in frames, failAt \in DeleteMessageFailPoints : ChatDeleteMessageEnd(f, failAt)
  \/ \E c \in Sockets, senderId \in Users \cup {NoArg} : ChatGetUnreadCountBegin(c, senderId)
  \/ \E f \in frames, ok \in BOOLEAN : ChatGetUnreadCountEnd(f, ok)

\* Every acknowledged operation, with at most MaxPending requests in flight.
MaxPending == 1

InitAck == InitGroup /\ connectedUsers = Binding(Users)

\* The chat:* handlers touch the direct store only and the group:* handlers the
\* group store only: a run works on one of the two stores.
DirectUntouched ==
  /\ messages = <<>> /\ conversations = <<>> /\ nextMessageId = 1
  /\ \A f \in frames : f.op \notin {"chat:send-message", "chat:mark-as-read",
                                     "chat:delete-message"}

GroupUntouched ==
  /\ Len(groupMembers) = 1 /\ groupMessages = <<>> /\ groupReads = {}
  /\ \A f \in frames : f.op \notin {"group:send-message", "group:mark-as-read",
                                     "group:add-member"}

NextAck ==
  /\ \/ EndTurn
     \/ GroupUntouched /\ NextChat
     \/ DirectUntouched /\ NextGroupOps
  /\ Cardinality(frames') <= MaxPending

\* The await of a handler in flight returns or throws.
HandlerStep(f) ==
  \/ \E failAt \in SendMessageFailPoints : ChatSendMessageEnd(f, failAt)
  \/ \E ok \in BOOLEAN : ChatEditMessageEnd(f, ok)
  \/ \E ok \in BOOLEAN : ChatLoadHistoryEnd(f, ok)
  \/ \E failAt \in MarkAsReadFailPoints : ChatMarkAsReadEnd(f, failAt)
  \/ \E failAt \in DeleteMessageFailPoints : ChatDeleteMessageEnd(f, failAt)
  \/ \E ok \in BOOLEAN : ChatGetUnreadCountEnd(f, ok)
  \/ \E failAt \in GroupSendFailPoints : GroupSendMessageSend(f, failAt)
  \/ \E failAt \in GetGroupMembersFailPoints : GroupSendMessageFanOut(f, failAt)
  \/ \E failAt \in GroupEditFailPoints : GroupEditMessageUpdate(f, failAt)
  \/ \E failAt \in GetGroupMembersFailPoints : GroupEditMessageFanOut(f, failAt)
  \/ \E ok \in BOOLEAN : GroupDeleteMessageDelete(f, ok)
  \/ \E failAt \in GetGroupMembersFailPoints : GroupDeleteMessageFanOut(f, failAt)
  \/ \E ok \in BOOLEAN : GroupLoadHistoryEnd(f, ok)
  \/ \E ok \in BOOLEAN : GroupMarkAsReadEnd(f, ok)
  \/ \E ok \in BOOLEAN : GroupAddMemberCheck(f, ok)
  \/ \E failAt \in GroupAddMemberFailPoints : GroupAddMemberInsert(f, failAt)
  \/ \E failAt \in GetGroupMembersFailPoints : GroupAddMemberFanOut(f, failAt)
  \/ \E ok \in BOOLEAN : GroupRemoveMemberRemove(f, ok)
  \/ \E failAt \in GetGroupMembersFailPoints : GroupRemoveMemberFanOut(f, failAt)

\* Every store call returns or throws, and every turn ends.
FairAck ==
  /\ WF_vars(EndTurn)
  /\ \A c \in Sockets :
       SF_vars(\E f \in frames : f.sock = c /\ HandlerStep(f))

SpecAck == InitAck /\ [][NextAck]_vars /\ FairAck

\* ------------------------------------------------- direct store, interleaved
SendMessageSteps ==
  \/ \E senderId \in Users, receiverId \in Users, content \in Contents :
        sendMessageBegin(senderId, receiverId, content)
  \/ \E f \in frames, failAt \in CreateFailPoints : sendMessageCreate(f, failAt)
  \/ \E f \in frames, ok \in BOOLEAN : createOrUpdateSelect(f, ok)
  \/ \E f \in frames, ok \in BOOLEAN : createOrUpdateWrite(f, ok)
  \/ \E f \in frames, ok \in BOOLEAN : sendMessageIncrementUnreadCount(f, ok)

MarkMessagesAsReadSteps ==
  \/ \E receiverId \in Users, senderId \in Users :
        markMessagesAsReadBegin(receiverId, senderId)
  \/ \E f \in frames, ok \in BOOLEAN : markMessagesAsReadMarkAsRead(f, ok)
  \/ \E f \in frames, ok \in BOOLEAN : markMessagesAsReadResetUnreadCount(f, ok)

DeleteMessageSteps ==
  \/ \E messageId \in SentIds, userId \in Users : deleteMessageBegin(messageId, userId)
  \/ \E f \in frames, ok \in BOOLEAN : deleteMessageSelect(f, ok)
  \/ \E f \in frames, ok \in BOOLEAN : deleteMessageUpdate(f, ok)
  \/ \E f \in frames, ok \in BOOLEAN : deleteMessageSelectDeletedBy(f, ok)
  \/ \E f \in frames, ok \in BOOLEAN : deleteMessageDelete(f, ok)

\* Interleaved sendMessage and markMessagesAsRead calls: the summary rows.
NextConversations == EndTurn \/ SendMessageSteps \/ MarkMessagesAsReadSteps

SpecConversations == Init /\ [][NextConversations]_vars

\* sendMessage, markMessagesAsRead and deleteMessage calls: the message rows.
\* The deleteMessage calls interleave query by query; a sendMessage or a
\* markMessagesAsRead call runs alone.
NextDeletes ==
  /\ EndTurn \/ SendMessageSteps \/ MarkMessagesAsReadSteps \/ DeleteMessageSteps
  /\ (\E f \in frames' : f.op # "deleteMessage") => Cardinality(frames') <= 1

SpecDeletes == Init /\ [][NextDeletes]_vars

\* -------------------------------------------------- group store, interleaved
CreateGroupWith(names) ==
  \/ \E adminUserId \in Users, name \in names : createGroupBegin(adminUserId, name)
  \/ \E f \in frames, failAt \in CreateGroupFailPoints : createGroupTransaction(f, failAt)
  \/ \E f \in frames, ok \in BOOLEAN : createGroupSelect(f, ok)

\* Where the names do not matter the calls pass a blank name or one name.
CreateGroupSteps == CreateGroupWith({<<" ">>, DefaultGroupName})

UpdateGroupWith(names) ==
  \/ \E groupId \in 1..MaxGroups, name \in names, adminUserId \in Users :
        updateGroupBegin(groupId, name, adminUserId)
  \/ \E f \in frames, ok \in BOOLEAN : updateGroupIsGroupAdmin(f, ok)
  \/ \E f \in frames, failAt \in UpdateGroupFailPoints : updateGroupUpdate(f, failAt)

UpdateGroupSteps == UpdateGroupWith({DefaultGroupName})

AddMemberSteps ==
  \/ \E groupId \in 1..MaxGroups, userId \in Users, addedByUserId \in Users :
        addMemberBegin(groupId, userId, addedByUserId)
  \/ \E f \in frames, ok \in BOOLEAN : addMemberIsGroupAdmin(f, ok)
  \/ \E f \in frames, ok \in BOOLEAN : addMemberGetGroupById(f, ok)
  \/ \E f \in frames, ok \in BOOLEAN : addMemberIsActiveMember(f, ok)
  \/ \E f \in frames, failAt \in AddMemberFailPoints : addMemberInsert(f, failAt)

RemoveMemberSteps ==
  \/ \E groupId \in 1..MaxGroups, userId \in Users, removedByUserId \in Users :
        removeMemberBegin(groupId, userId, removedByUserId)
  \/ \E f \in frames, ok \in BOOLEAN : removeMemberIsGroupAdmin(f, ok)
  \/ \E f \in frames, ok \in BOOLEAN : removeMemberGetGroupById(f, ok)
  \/ \E f \in frames, ok \in BOOLEAN : removeMemberUpdate(f, ok)

SendGroupMessageSteps ==
  \/ \E groupId \in 1..MaxGroups, senderId \in Users, content \in Contents :
        sendGroupMessageBegin(groupId, senderId, content)
  \/ \E f \in frames, ok \in BOOLEAN : sendGroupMessageIsActiveMember(f, ok)
  \/ \E f \in frames, ok \in BOOLEAN : createGroupMessageIsActiveMember(f, ok)
  \/ \E f \in frames, failAt \in CreateGroupMessageFailPoints : createGroupMessageInsert(f, failAt)

GetGroupMessagesSteps ==
  \/ \E groupId \in 1..MaxGroups, userId \in Users : getGroupMessagesBegin(groupId, userId)
  \/ \E f \in frames, ok \in BOOLEAN : getGroupMessagesJoinedAt(f, ok)
  \/ \E f \in frames, ok \in BOOLEAN : getGroupMessagesSelect(f, ok)

\* Interleaved createGroup, updateGroup, addMember and removeMember calls.
NextMembership ==
  EndTurn \/ CreateGroupSteps \/ UpdateGroupSteps \/ AddMemberSteps \/ RemoveMemberSteps

SpecMembership == Init /\ [][NextMembership]_vars

\* createGroup and updateGroup calls with blank names, a name of the greatest
\* accepted length and a longer one.
LongestName == [i \in 1..MaxNameLength |-> "x"]
TooLongName == [i \in 1..MaxNameLength + 1 |-> "x"]
NameInputs == {<<>>, <<" ">>, DefaultGroupName, LongestName, TooLongName}

NextGroupNames ==
  EndTurn \/ CreateGroupWith(NameInputs) \/ UpdateGroupWith(NameInputs)

SpecGroupNames == Init /\ [][NextGroupNames]_vars

\* Membership changes, sendGroupMessage and getGroupMessages calls, interleaved,
\* on the first MaxHistoryGroups groups.
MaxHistoryGroups == 1

NextGroupHistory ==
  /\ \/ EndTurn
     \/ CreateGroupSteps \/ AddMemberSteps \/ RemoveMemberSteps
     \/ SendGroupMessageSteps \/ GetGroupMessagesSteps
  /\ Len(groups') + InFlightAt("createGroup", {"transaction"})' <= MaxHistoryGroups
  /\ \A f \in frames' : f.op # "createGroup" => f.a <= MaxHistoryGroups

SpecGroupHistory == Init /\ [][NextGroupHistory]_vars

\* ------------------------------------------- three users, handler by handler
\* Users 1, 2 and 3 have authenticated on the sockets of the same numbers;
\* user 1 has created group 1 and added user 2; user 3 is no member.  The
\* membership stays as it is.
NParties == 3
Parties == 1..NParties

InitParties ==
  /\ sockets = [c \in Sockets |-> "open"]
  /\ connectedUsers = [i \in 1..NParties |-> [userId |-> i, socketId |-> i]]
  /\ messages = <<>>
  /\ conversations = <<>>
  /\ nextMessageId = 1
  /\ groups = <<[id |-> 1, admin_user_id |-> 1, name |-> DefaultGroupName]>>
  /\ groupMembers = <<[group_id |-> 1, user_id |-> 1, joined_at |-> 1, left |-> FALSE],
                      [group_id |-> 1, user_id |-> 2, joined_at |-> 2, left |-> FALSE]>>
  /\ groupMessages = <<>>
  /\ groupReads = {}
  /\ frames = {}
  /\ done = NoneDone

PartiesChat ==
  \/ \E c \in Sockets, receiverId \in Parties, content \in Contents :
        ChatSendMessageBegin(c, receiverId, content)
  \/ \E f \in frames, failAt \in SendMessageFailPoints : ChatSendMessageEnd(f, failAt)
  \/ \E c \in Sockets, messageId \in MessageIds, newContent \in Contents :
        ChatEditMessageBegin(c, messageId, newContent)
  \/ \E f \in frames, ok \in BOOLEAN : ChatEditMessageEnd(f, ok)
  \/ \E c \in Sockets, senderId \in Parties : ChatMarkAsReadBegin(c, senderId)
  \/ \E f \in frames, failAt \in MarkAsReadFailPoints : ChatMarkAsReadEnd(f, failAt)
  \/ \E c \in Sockets, messageId \in MessageIds, deleteForAll \in BOOLEAN :
        ChatDeleteMessageBegin(c, messageId, deleteForAll)
  \/ \E f \in frames, failAt \in DeleteMessageFailPoints : ChatDeleteMessageEnd(f, failAt)

PartiesGroupOps ==
  \/ \E c \in Sockets, groupId \in GroupIds, content \in Contents :
        GroupSendMessageBegin(c, groupId, content)
  \/ \E f \in frames, failAt \in GroupSendFailPoints : GroupSendMessageSend(f, failAt)
  \/ \E f \in frames, failAt \in GetGroupMembersFailPoints : GroupSendMessageFanOut(f, failAt)
  \/ \E c \in Sockets, messageId \in GroupMessageIds, newContent \in Contents :
        GroupEditMessageBegin(c, messageId, newContent)
  \/ \E f \in frames, failAt \in GroupEditFailPoints : GroupEditMessageUpdate(f, failAt)
  \/ \E f \in frames, failAt \in GetGroupMembersFailPoints : GroupEditMessageFanOut(f, failAt)
  \/ \E c \in Sockets, messageId \in GroupMessageIds : GroupDeleteMessageBegin(c, messageId)
  \/ \E f \in frames, ok \in BOOLEAN : GroupDeleteMessageDelete(f, ok)
  \/ \E f \in frames, failAt \in GetGroupMembersFailPoints : GroupDeleteMessageFanOut(f, failAt)
  \/ \E c \in Sockets, groupMessageId \in GroupMessageIds : GroupMarkAsReadBegin(c, groupMessageId)
  \/ \E f \in frames, ok \in BOOLEAN : GroupMarkAsReadEnd(f, ok)

\* The chat:* handlers touch the direct store only and the group:* handlers the
\* group store only: a run works on one of the two stores.
GroupMessagesUntouched ==
  /\ groupMessages = <<>> /\ groupReads = {}
  /\ \A f \in frames : f.op \notin {"group:send-message", "group:mark-as-read"}

NextParties ==
  \/ EndTurn
  \/ GroupMessagesUntouched /\ PartiesChat
  \/ DirectUntouched /\ PartiesGroupOps

SpecParties == InitParties /\ [][NextParties]_vars

\* chat:send-message and chat:mark-as-read alone, interleaved.
NextPartiesSend ==
  \/ EndTurn
  \/ \E c \in Sockets, receiverId \in Parties, content \in Contents :
        ChatSendMessageBegin(c, receiverId, content)
  \/ \E f \in frames, failAt \in SendMessageFailPoints : ChatSendMessageEnd(f, failAt)
  \/ \E c \in Sockets, senderId \in Parties : ChatMarkAsReadBegin(c, senderId)
  \/ \E f \in frames, failAt \in MarkAsReadFailPoints : ChatMarkAsReadEnd(f, failAt)

SpecPartiesSend == InitParties /\ [][NextPartiesSend]_vars

\* chat:send-message, chat:edit-message and chat:delete-message, with each of
\* the three users bound to the socket of the same number or to none.
BindingOf(S) ==
  LET ids == SelectSeq([i \in 1..NParties |-> i], LAMBDA u : u \in S)
  IN [i \in 1..Len(ids) |-> [userId |-> ids[i], socketId |-> ids[i]]]

InitPartiesEdit ==
  /\ sockets = [c \in Sockets |-> "open"]
  /\ connectedUsers \in {BindingOf(S) : S \in SUBSET Parties}
  /\ messages = <<>>
  /\ conversations = <<>>
  /\ nextMessageId = 1
  /\ groups = <<>>
  /\ groupMembers = <<>>
  /\ groupMessages = <<>>
  /\ groupReads = {}
  /\ frames = {}
  /\ done = NoneDone

NextPartiesEdit ==
  \/ EndTurn
  \/ \E c \in Sockets, receiverId \in Parties, content \in Contents :
        ChatSendMessageBegin(c, receiverId, content)
  \/ \E f \in frames, failAt \in SendMessageFailPoints : ChatSendMessageEnd(f, failAt)
  \/ \E c \in Sockets, messageId \in MessageIds, newContent \in Contents :
        ChatEditMessageBegin(c, messageId, newContent)
  \/ \E f \in frames, ok \in BOOLEAN : ChatEditMessageEnd(f, ok)
  \/ \E c \in Sockets, messageId \in MessageIds, deleteForAll \in BOOLEAN :
        ChatDeleteMessageBegin(c, messageId, deleteForAll)
  \/ \E f \in frames, failAt \in DeleteMessageFailPoints : ChatDeleteMessageEnd(f, failAt)

SpecPartiesEdit == InitPartiesEdit /\ [][NextPartiesEdit]_vars

\* ------------------------------------------------ decryption for display
\* The cipher service: encrypt(plaintext) gives a ciphertext and the iv it was
\* made with; decrypt(ciphertext, iv) gives the plaintext back and throws on a
\* pair that encrypt did not make.
MaxCipherRows == 3
Plaintexts == {"hi", "Este mensaje fue eliminado"}
IVs == {"iv1", "iv2"}

encrypt(plaintext, iv) ==
  [encryptedContent |-> [of |-> plaintext, iv |-> iv, tag |-> "ok"], iv |-> iv]

decrypt(encryptedContent, iv) ==
  IF encryptedContent.tag = "ok" /\ encryptedContent.iv = iv
  THEN [threw |-> FALSE, plaintext |-> encryptedContent.of]
  ELSE [threw |-> TRUE, plaintext |-> ""]

\* The pairs a stored row can hold: made by encrypt, or with the ciphertext or
\* the iv altered since.
CipherPairs ==
  {[encryptedContent |-> [of |-> p, iv |-> "iv1", tag |-> t], iv |-> v] :
     p \in Plaintexts, t \in {"ok", "bad"}, v \in IVs}

DeletedPlaceholder == "Este mensaje fue eliminado"
MessageCorruptedPlaceholder == "[Mensaje encriptado - error al desencriptar]"
GroupCorruptedPlaceholder == "[Mensaje encriptado - error al desencriptar]"

\* decryptMessage(message): try decrypt, catch: the placeholder. The result:
\* the returned message, whether the call threw, the decrypt calls it made.
decryptMessage(message) ==
  LET r == decrypt(message.encrypted_content, message.iv) IN
  [message |-> [id |-> message.id,
                content |-> IF r.threw THEN MessageCorruptedPlaceholder
                            ELSE r.plaintext],
   threw |-> FALSE, calls |-> <<message.id>>]

\* decryptGroupMessage(message) without its test of isDeletedForAll.
decryptGroupMessageUntested(message) ==
  LET r == decrypt(message.encryptedContent, message.iv) IN
  [message |-> [id |-> message.id,
                content |-> IF r.threw THEN GroupCorruptedPlaceholder
                            ELSE r.plaintext],
   threw |-> FALSE, calls |-> <<message.id>>]

\* decryptGroupMessage(message): a tombstoned message gets the placeholder
\* before decrypt is called; otherwise try decrypt, catch: the placeholder.
decryptGroupMessage(message) ==
  IF message.isDeletedForAll
  THEN [message |-> [id |-> message.id, content |-> DeletedPlaceholder],
        threw |-> FALSE, calls |-> <<>>]
  ELSE LET r == decrypt(message.encryptedContent, message.iv) IN
       [message |-> [id |-> message.id,
                     content |-> IF r.threw THEN GroupCorruptedPlaceholder
                                 ELSE r.plaintext],
        threw |-> FALSE, calls |-> <<message.id>>]

\* messages.map(msg => decrypt...(msg)): the method's results in list order;
\* a call that throws ends the map.
RECURSIVE MapDecrypt(_, _)
MapDecrypt(list, group) ==
  IF list = <<>> THEN [messages |-> <<>>, threw |-> FALSE, calls |-> <<>>]
  ELSE LET r == IF group THEN decryptGroupMessage(Head(list))
                ELSE decryptMessage(Head(list))
           rest == MapDecrypt(Tail(list), group)
       IN IF r.threw THEN [messages |-> <<>>, threw |-> TRUE, calls |-> r.calls]
          ELSE [messages |-> <<r.message>> \o rest.messages,
                threw |-> rest.threw, calls |-> r.calls \o rest.calls]

\* The rows the store returned: direct rows or group rows, any pair in each.
InitDecrypt ==
  /\ sockets = [c \in Sockets |-> "open"]
  /\ connectedUsers = <<>>
  /\ conversations = <<>>
  /\ nextMessageId = 1
  /\ groups = <<>>
  /\ groupMembers = <<>>
  /\ groupReads = {}
  /\ frames = {}
  /\ done = NoneDone
  /\ \E n \in 1..MaxCipherRows :
       \/ /\ messages \in [1..n -> {[id |-> 0, encrypted_content |-> cp.encryptedContent,
                                     iv |-> cp.iv] : cp \in CipherPairs}]
          /\ groupMessages = <<>>
       \/ /\ groupMessages \in [1..n -> {[id |-> 0, encryptedContent |-> cp.encryptedContent,
                                          iv |-> cp.iv, isDeletedForAll |-> t] :
                                           cp \in CipherPairs, t \in BOOLEAN}]
          /\ messages = <<>>

\* Rows carry their position as id.
Numbered(list) == [i \in 1..Len(list) |-> [list[i] EXCEPT !.id = i]]

\* getChatHistory, after the query: return messages.map(decryptMessage).
\* Completed: b the returned list, writes the ids decrypt was called for.
getChatHistoryDecrypt ==
  LET r == MapDecrypt(Numbered(messages), FALSE)
      d == Completed("getChatHistory", NoSocket, NoUser, NoArg, r.messages,
                     <<>>, <<>>, r.calls) IN
  /\ TurnEnded
  /\ messages # <<>>
  /\ Finish(IF r.threw THEN Threw(d, "decryptMessage") ELSE d)
  /\ UNCHANGED <<registry, directStore, groupStore>>

\* getGroupMessages, after the query: return messages.map(decryptGroupMessage).
getGroupMessagesDecrypt ==
  LET r == MapDecrypt(Numbered(groupMessages), TRUE)
      d == Completed("getGroupMessages", NoSocket, NoUser, NoArg, r.messages,
                     <<>>, <<>>, r.calls) IN
  /\ TurnEnded
  /\ groupMessages # <<>>
  /\ Finish(IF r.threw THEN Threw(d, "decryptGroupMessage") ELSE d)
  /\ UNCHANGED <<registry, directStore, groupStore>>

NextDecrypt ==
  \/ EndTurn
  \/ getChatHistoryDecrypt
  \/ getGroupMessagesDecrypt

SpecDecrypt == InitDecrypt /\ [][NextDecrypt]_vars

\* ------------------------------------- chat:load-history, limit and offset
\* A payload value of data.limit or data.offset: absent, a number (counted in
\* halves, so that 3 is the number 1.5) or a string.
MaxNegHalves == 2
MaxHalves == 4
PageValues ==
  {[type |-> "undefined", halves |-> 0, text |-> ""]}
    \cup {[type |-> "number", halves |-> h, text |-> ""] : h \in -MaxNegHalves..MaxHalves}
    \cup {[type |-> "string", halves |-> 0, text |-> t] : t \in {"abc", "0"}}

\* `data.limit ? ... : ...`: undefined, 0 and NaN are falsy; every string here
\* is not empty.
Truthy(x) == x.type = "string" \/ (x.type = "number" /\ x.halves # 0)

\* parseInt(String(x), 10): the digits before the decimal point, with the
\* sign; NaN when the text starts with no digit.
parseIntString(x) ==
  IF x.type = "number"
  THEN IF x.halves >= 0 THEN x.halves \div 2 ELSE -((-x.halves) \div 2)
  ELSE IF x.type = "string" /\ x.text = "0" THEN 0
  ELSE NaN

limitOf(data) == IF Truthy(data) THEN parseIntString(data) ELSE DefaultLimit
offsetOf(data) == IF Truthy(data) THEN parseIntString(data) ELSE 0

\* getConversationHistory: the test before the query (the handler passes
\* integers or NaN).
getConversationHistoryRejects(userId, contactId, limit, offset) ==
  userId <= 0 \/ contactId <= 0 \/ limit <= 0 \/ offset < 0

\* The request carries contactId, limit and offset.  Frame and Completed: a
\* the contact, b the limit and the offset of the payload; writes holds the
\* limit and offset of the history query that ran.
ChatLoadHistoryPageBegin(c, contactId, limit, offset) ==
  LET userId == getUserIdBySocketId(c)
      f == Frame("chat:load-history", c, userId, parseInt(contactId),
                 <<limit, offset>>, "getChatHistory") IN
  /\ TurnEnded
  /\ sockets[c] = "open"
  /\ IF userId = NoUser THEN Finish(NotAuthenticated(f.op, c))
     ELSE IF \/ isNaN(parseInt(contactId))
             \/ isNaN(limitOf(limit)) \/ isNaN(offsetOf(offset))
     THEN Finish(Completed(f.op, c, userId, NoArg, f.b,
                           <<AckErr("Parametros invalidos")>>, <<>>, <<>>))
     ELSE Suspend(f)
  /\ UNCHANGED <<registry, directStore, groupStore>>

ChatLoadHistoryPageEnd(f, ok) ==
  LET limit == limitOf(f.b[1])
      offset == offsetOf(f.b[2])
      query == <<[limit |-> limit, offset |-> offset]>> IN
  /\ TurnEnded
  /\ f \in frames /\ f.op = "chat:load-history" /\ f.pc = "getChatHistory"
  /\ IF getConversationHistoryRejects(f.userId, f.a, limit, offset)
     THEN Return(f, Fails(f, "Parametros invalidos para getConversationHistory"))
     ELSE IF ~ok
     THEN Return(f, Fails([f EXCEPT !.writes = query], "getConversationHistory"))
     ELSE Return(f, Completed(f.op, f.sock, f.userId, f.a, f.b, <<AckOk>>,
                              <<>>, query))
  /\ UNCHANGED <<registry, directStore, groupStore>>

\* One request at a time.
NextLoadHistory ==
  \/ EndTurn
  \/ /\ frames = {}
     /\ \E c \in Sockets, contactId \in Parties \cup {Undefined},
           limit \in PageValues, offset \in PageValues :
          ChatLoadHistoryPageBegin(c, contactId, limit, offset)
  \/ \E f \in frames, ok \in BOOLEAN : ChatLoadHistoryPageEnd(f, ok)

SpecLoadHistory == InitParties /\ [][NextLoadHistory]_vars

\* ------------------------------------------- requests and authentication
\* No socket has authenticated; authenticate requests bind and rebind the
\* users while the acknowledged operations arrive, one handler in flight.
InitUnbound == InitGroup /\ connectedUsers = <<>>

NextUnbound ==
  /\ \/ EndTurn
     \/ \E c \in Sockets, u \in Users : AuthenticateBegin(c, u)
     \/ \E f \in frames, ok \in BOOLEAN : AuthenticateEnd(f, ok)
     \/ GroupUntouched /\ NextChat
     \/ DirectUntouched /\ NextGroupOps
  /\ Cardinality(frames') <= MaxPending

SpecUnbound == InitUnbound /\ [][NextUnbound]_vars

\* =====================================================================
\* Steps of the registry, as seen from one state to the next.
AuthenticateProcessed(c, u) ==
  \E f \in frames' \ frames : f.op = "authenticate" /\ f.sock = c /\ f.userId = u

Disconnects(c) == sockets[c] = "open" /\ sockets'[c] = "closed"

EntriesOf(m, u) == {i \in 1..Len(m) : m[i].userId = u}

IsPrefix(s, t) == Len(s) <= Len(t) /\ SubSeq(t, 1, Len(s)) = s

\* The router operations that take a correlation callback.
AcknowledgedOps ==
  {"chat:send-message", "chat:edit-message", "chat:delete-message",
   "chat:load-history", "chat:mark-as-read", "chat:get-unread-count",
   "group:send-message", "group:edit-message", "group:delete-message",
   "group:load-history", "group:mark-as-read", "group:add-member",
   "group:remove-member"}

\* C1: a request of an acknowledged operation invokes its callback at most
\* once, in flight and on return, and never with a success payload followed by
\* an error payload, whatever the steps after the success payload do.
C1_CallbackAtMostOnce ==
  /\ \A f \in frames : f.op \in AcknowledgedOps => Len(f.acks) <= 1
  /\ done.op \in AcknowledgedOps =>
       /\ Len(done.acks) <= 1
       /\ ~ \E i, j \in 1..Len(done.acks) :
              i < j /\ done.acks[i].success /\ ~done.acks[j].success

\* A request from socket c waits for its first callback invocation; a request
\* from c has had a callback invocation.
Pending(c) ==
  \E f \in frames : f.op \in AcknowledgedOps /\ f.sock = c /\ f.acks = <<>>

Responded(c) ==
  \/ done.op \in AcknowledgedOps /\ done.sock = c /\ done.acks # <<>>
  \/ \E f \in frames : f.op \in AcknowledgedOps /\ f.sock = c /\ f.acks # <<>>

\* C2: every request of an acknowledged operation gets a callback invocation:
\* a handler never returns without having invoked the callback, from a bound or
\* an unbound socket, and a request whose handler waits for a store call gets
\* the invocation once the call has returned or thrown.
C2_EveryRequestAcknowledged ==
  /\ [](done.op \in AcknowledgedOps => done.acks # <<>>)
  /\ [][\A f \in frames \ frames' :
          f.op \in AcknowledgedOps /\ f.acks = <<>> =>
            \/ done'.op = f.op /\ done'.sock = f.sock /\ done'.acks # <<>>
            \/ \E g \in frames' \ frames : g.op = f.op /\ g.sock = f.sock]_vars
  /\ \A c \in Sockets : Pending(c) ~> Responded(c)

\* A chat:mark-as-read whose second store call threw has been answered, with
\* the error.
C2_Witness ==
  /\ done.op = "chat:mark-as-read"
  /\ done.userId # NoUser
  /\ done.threw = "resetUnreadCount"
  /\ done.acks = <<AckErr("resetUnreadCount")>>

\* The operations that send, edit, delete, mark read or change membership.
MutatingOps ==
  {"message:send", "chat:send-message", "chat:edit-message", "chat:delete-message",
   "chat:mark-as-read", "group:send-message", "group:edit-message",
   "group:delete-message", "group:mark-as-read", "group:add-member",
   "group:remove-member"}

\* C6: the user a mutating operation acts as is the user the registry maps to
\* the issuing socket when the request arrives: a handler that suspends or
\* returns in the turn of the request carries that user, a resumed handler keeps
\* the user it started with, and a stored message has the acting user as sender.
C6_ActingUserIsRegistryUser ==
  /\ [][/\ \A f \in frames' \ frames :
             f.op \in MutatingOps =>
               \/ \E g \in frames \ frames' :
                    g.op = f.op /\ g.sock = f.sock /\ g.userId = f.userId
               \/ f.userId # NoUser /\ f.userId = getUserIdBySocketId(f.sock)
        /\ (done'.op \in MutatingOps /\ frames' = frames) =>
             done'.userId = getUserIdBySocketId(done'.sock)
        /\ (done'.op \in MutatingOps /\ frames' # frames) =>
             \E g \in frames \ frames' :
               g.op = done'.op /\ g.sock = done'.sock /\ g.userId = done'.userId
       ]_vars
  /\ [](done.op = "chat:send-message" /\ done.acks = <<AckOk>> =>
          \E i \in 1..Len(messages) :
            messages[i].id = done.b /\ messages[i].sender_id = done.userId)

\* C9: when a group:send-message has returned after a success payload, each
\* socket got group:new-message once if the registry binds to it a user other
\* than the sender who is an active member of the group now, and did not get it
\* otherwise; no other handler emits group:new-message.
C9_GroupNewMessageOncePerActiveMember ==
  /\ (done.op = "group:send-message" /\ done.acks # <<>> /\ done.acks[1].success) =>
       \A c \in Sockets :
         Cardinality({i \in 1..Len(done.emits) :
                        /\ done.emits[i].ev = "group:new-message"
                        /\ done.emits[i].to = c
                        /\ done.emits[i].key = done.b})
         = IF \E u \in Users :
                /\ u # done.userId
                /\ isActiveMember(groupMembers, done.a, u)
                /\ MapGet(connectedUsers, u) = c
           THEN 1 ELSE 0
  /\ \A i \in 1..Len(done.emits) :
       done.emits[i].ev = "group:new-message" => done.op = "group:send-message"

\* C10: when a store or service call threw for a request of an acknowledged
\* operation, the callback got the error payload and nothing else, and the step
\* that caught the exception left the registry and the sockets as they were.
C10_ThrowBecomesErrorPayload ==
  /\ [](done.op \in AcknowledgedOps /\ done.threw # "none" =>
          done.acks = <<AckErr(done.threw)>>)
  /\ [][done'.op \in AcknowledgedOps /\ done'.threw # "none" =>
          /\ connectedUsers' = connectedUsers
          /\ sockets' = sockets
          /\ sockets[done'.sock] = "open"]_vars

\* C3: when two sockets authenticate as the same user, the registry holds the
\* socket whose authenticate was processed last and that socket only (a binding
\* changes only to the socket authenticating now, or to none when the bound
\* socket disconnects), and chat:new-message for that user goes to the socket
\* the registry holds, never to a superseded one.
C3_LastAuthenticateWins ==
  /\ [][/\ \A c \in Sockets, u \in Users :
             AuthenticateProcessed(c, u) =>
               /\ MapGet(connectedUsers', u) = c
               /\ Cardinality(EntriesOf(connectedUsers', u)) = 1
        /\ \A u \in Users :
             LET old == MapGet(connectedUsers, u)
                 new == MapGet(connectedUsers', u)
             IN new # old =>
                  \/ new # NoSocket /\ AuthenticateProcessed(new, u)
                  \/ new = NoSocket /\ Disconnects(old)
       ]_vars
  /\ [](done.op = "chat:send-message" =>
          \A i \in 1..Len(done.emits) :
            /\ done.emits[i].to = MapGet(connectedUsers, done.a)
            /\ \A f \in frames :
                 (f.op = "authenticate" /\ f.userId = done.a
                    /\ f.sock # MapGet(connectedUsers, done.a))
                 => done.emits[i].to # f.sock)

\* A message was delivered to the socket bound to its receiver while the
\* authenticate handler of another, superseded, socket of the same user is still
\* in flight and that socket is still open.
C3_Witness ==
  /\ done.op = "chat:send-message"
  /\ Len(done.emits) = 1
  /\ \E f \in frames :
       /\ f.op = "authenticate" /\ f.userId = done.a
       /\ f.sock # done.emits[1].to
       /\ sockets[f.sock] = "open"
       /\ done.sock \notin {f.sock, done.emits[1].to}

\* C4: the disconnect of a socket leaves every binding that maps a user to
\* another socket as it is, and its handler persists and broadcasts nothing about
\* such a user: the handler acts on a user that was bound to this very socket.
C4_SupersededDisconnectKeepsBinding ==
  /\ [][\A c \in Sockets :
          Disconnects(c) =>
            \A u \in Users :
              MapGet(connectedUsers, u) \notin {NoSocket, c} =>
                /\ MapGet(connectedUsers', u) = MapGet(connectedUsers, u)
                /\ ~ \E f \in frames' \ frames : f.op = "disconnect" /\ f.userId = u
                /\ ~ (done'.op = "disconnect" /\ done'.userId = u)
       ]_vars
  /\ [](done.op = "disconnect" =>
          /\ \A i \in 1..Len(done.emits) : done.emits[i].key = done.userId
          /\ done.userId = NoUser => done.emits = <<>> /\ done.writes = <<>>)

\* A socket whose authenticate handler is still in flight has disconnected, its
\* user is bound to another socket, and the disconnect handler found no binding.
C4_Witness ==
  /\ done.op = "disconnect" /\ done.userId = NoUser
  /\ \E f \in frames :
       /\ f.op = "authenticate" /\ f.sock = done.sock
       /\ MapGet(connectedUsers, f.userId) \notin {NoSocket, done.sock}
       /\ sockets[MapGet(connectedUsers, f.userId)] = "open"

\* C5: when a socket disconnects, every user the registry maps to it is unbound
\* in that step, before anything is persisted; then OFFLINE and last-seen are
\* persisted for the user, in that order, and user:offline is broadcast exactly
\* once; a socket with no binding persists and broadcasts nothing.
C5_DisconnectUnbindsPersistsBroadcasts ==
  /\ [][\A c \in Sockets :
          Disconnects(c) =>
            /\ \A u \in Users :
                 MapGet(connectedUsers, u) = c =>
                   /\ MapGet(connectedUsers', u) = NoSocket
                   /\ \E f \in frames' \ frames :
                        /\ f.op = "disconnect" /\ f.sock = c /\ f.userId = u
                        /\ f.pc = "updateStatus" /\ f.writes = <<>>
            /\ (\A u \in Users : MapGet(connectedUsers, u) # c) =>
                 /\ frames' = frames
                 /\ done'.op = "disconnect" /\ done'.sock = c
                 /\ done'.emits = <<>> /\ done'.writes = <<>>
       ]_vars
  /\ [](done.op = "disconnect" /\ done.userId # NoUser =>
          /\ done.emits = <<Emit("user:offline", Broadcast, done.userId)>>
          /\ IsPrefix(done.writes, <<"OFFLINE", "lastSeen">>))

\* C7: a chat:send-message whose receiver has no binding at fan-out still
\* persists the message (the receiver's history holds it), invokes the callback
\* once, with success, and emits nothing; an authenticate never delivers a
\* chat:new-message.
C7_UnboundReceiverSkipped ==
  /\ (/\ done.op = "chat:send-message"
      /\ done.acks # <<>> /\ done.acks[1].success
      /\ MapGet(connectedUsers, done.a) = NoSocket)
     => /\ done.acks = <<AckOk>>
        /\ done.emits = <<>>
        /\ \E i \in 1..Len(messages) :
             /\ messages[i].id = done.b
             /\ messages[i].sender_id = done.userId
             /\ messages[i].receiver_id = done.a
        /\ LET history == getConversationHistory(messages, done.a, done.userId,
                                                 DefaultLimit, 0)
           IN \E i \in 1..Len(history) : history[i].id = done.b
  /\ done.op = "authenticate" =>
       \A i \in 1..Len(done.emits) : done.emits[i].ev # "chat:new-message"

C7_Witness ==
  /\ done.op = "chat:send-message"
  /\ done.acks = <<AckOk>>
  /\ MapGet(connectedUsers, done.a) = NoSocket
  /\ \E i \in 1..Len(messages) : messages[i].id = done.b

\* C8: chat:new-message is emitted by chat:send-message only, once, and to the
\* socket the registry maps from the receiver at fan-out: never as a broadcast,
\* never to another socket.
C8_NewMessageOnlyToReceiver ==
  \A i \in 1..Len(done.emits) :
    done.emits[i].ev = "chat:new-message" =>
      /\ done.op = "chat:send-message"
      /\ Len(done.emits) = 1
      /\ done.emits[i].to \in Sockets
      /\ done.emits[i].to = MapGet(connectedUsers, done.a)
      /\ done.emits[i].key = done.b

\* The message went to the receiver's socket while the sender's socket and an
\* open socket bound to nobody got nothing.
C8_Witness ==
  /\ done.op = "chat:send-message"
  /\ Len(done.emits) = 1
  /\ done.emits[1].ev = "chat:new-message"
  /\ MapGet(connectedUsers, done.userId) = done.sock
  /\ done.sock # done.emits[1].to
  /\ \E c \in Sockets :
       /\ sockets[c] = "open"
       /\ getUserIdBySocketId(c) = NoUser

\* C11: a presence write that throws does not stop the transition.  The
\* authenticate handler binds the user to its socket before the write; when
\* updateStatus throws, the step that catches it leaves the registry as it is
\* and the handler emits 'authenticated' to the caller and user:online to
\* everyone, as it does when the write returns.  When updateStatus or
\* updateLastSeen throws in the disconnect handler, the user is not bound to
\* the closed socket and user:offline is broadcast.
C11_PresenceFailureDoesNotBlock ==
  /\ [][/\ \A c \in Sockets, u \in Users :
             AuthenticateProcessed(c, u) => MapGet(connectedUsers', u) = c
        /\ (done'.op \in {"authenticate", "disconnect"} /\ done'.threw # "none") =>
             connectedUsers' = connectedUsers
       ]_vars
  /\ [](done.op = "authenticate" /\ done.threw # "none" =>
          /\ done.threw = "updateStatus"
          /\ done.emits = <<Emit("authenticated", done.sock, done.userId),
                            Emit("user:online", Broadcast, done.userId)>>)
  /\ [](done.op = "disconnect" /\ done.threw # "none" =>
          /\ done.threw \in {"updateStatus", "updateLastSeen"}
          /\ MapGet(connectedUsers, done.userId) # done.sock
          /\ sockets[done.sock] = "closed"
          /\ done.emits = <<Emit("user:offline", Broadcast, done.userId)>>)

\* The updateStatus of an authenticate threw and the user is bound to the
\* socket that authenticated; a disconnect whose updateLastSeen will throw or
\* return is in flight.
C11_Witness ==
  /\ done.op = "authenticate" /\ done.threw = "updateStatus"
  /\ MapGet(connectedUsers, done.userId) = done.sock
  /\ done.writes = <<>>
  /\ \E f \in frames : f.op = "disconnect" /\ f.pc = "updateLastSeen"

\* C12: a row of the messages table disappears only in a step that starts in
\* a state where both deleted_by_sender and deleted_by_receiver of that row are
\* set; a row with at most one flag set stays, a flag that is set stays set,
\* and the step removes no other row.
C12_PurgedOnlyWhenBothFlags ==
  [][\A i \in 1..Len(messages) :
       IF HasMessage(messages', messages[i].id)
       THEN LET row == MessageById(messages', messages[i].id) IN
            /\ messages[i].deleted_by_sender => row.deleted_by_sender
            /\ messages[i].deleted_by_receiver => row.deleted_by_receiver
       ELSE /\ messages[i].deleted_by_sender /\ messages[i].deleted_by_receiver
            /\ \A j \in 1..Len(messages) :
                 j # i => HasMessage(messages', messages[j].id)
    ]_vars

\* A deleteMessage has purged the first message while the second message, with
\* one flag set, is still stored.
C12_Witness ==
  /\ done.op = "deleteMessage" /\ done.threw = "none" /\ done.a = 1
  /\ nextMessageId = 3
  /\ ~HasMessage(messages, 1)
  /\ HasMessage(messages, 2)
  /\ EitherDeleted(MessageById(messages, 2))

\* The ids of the messages that getConversationHistory returns to userId for
\* the conversation with contactId, with the handler's limit and offset.
HistoryIds(userId, contactId) ==
  LET rows == getConversationHistory(messages, userId, contactId, DefaultLimit, 0)
  IN {rows[i].id : i \in 1..Len(rows)}

\* C13: when a deleteMessage call of the sender or of the receiver has
\* returned, the row is gone or it carries the caller's flag only; so after both
\* sides have deleted, in either order, the row is absent.  A stored row is in
\* a side's getConversationHistory result exactly when that side's flag is not
\* set: after one side has deleted, the other side still gets the message and
\* the deleting side does not.
C13_BothSidesPurgeOneSideHides ==
  /\ [][(done'.op = "deleteMessage" /\ done'.threw = "none"
          /\ HasMessage(messages', done'.a)) =>
         LET row == MessageById(messages', done'.a) IN
         /\ done'.userId = row.sender_id =>
              row.deleted_by_sender /\ ~row.deleted_by_receiver
         /\ done'.userId = row.receiver_id =>
              row.deleted_by_receiver /\ ~row.deleted_by_sender
       ]_vars
  /\ [](\A i \in 1..Len(messages) :
          LET row == messages[i] IN
          /\ row.id \in HistoryIds(row.sender_id, row.receiver_id)
                <=> ~row.deleted_by_sender
          /\ row.id \in HistoryIds(row.receiver_id, row.sender_id)
                <=> ~row.deleted_by_receiver)

\* Both sides have deleted the first message and it is gone; the receiver of
\* the second message has deleted it: the sender's history has it, the
\* receiver's has not.
C13_Witness ==
  /\ done.op = "deleteMessage" /\ done.threw = "none" /\ done.a = 2
  /\ nextMessageId = 3
  /\ ~HasMessage(messages, 1)
  /\ HasMessage(messages, 2)
  /\ done.userId = MessageById(messages, 2).receiver_id
  /\ 2 \in HistoryIds(MessageById(messages, 2).sender_id, done.userId)
  /\ 2 \notin HistoryIds(done.userId, MessageById(messages, 2).sender_id)

\* The limits and offsets of a getGroupMessages request.
Limits == 1..MaxGroupSent
Offsets == 0..MaxGroupSent

\* C14: when getGroupMessages(g, u, limit, offset) returns to a user who is an
\* active member of g, no message of the result, for any limit and offset, has
\* a timestamp earlier than the joinedAt of u's active membership row.
C14_HistoryNotBeforeJoinedAt ==
  (/\ done.op = "getGroupMessages" /\ done.threw = "none"
   /\ isActiveMember(groupMembers, done.a, done.userId)) =>
    \A limit \in Limits, offset \in Offsets :
      LET rows == getGroupMessages(groupMessages, done.b, done.a, limit, offset) IN
      \A i \in 1..Len(rows) :
        rows[i].timestamp >= getMemberJoinedAt(groupMembers, done.a, done.userId)


\* A membership row of the user in the group that has left_at set.
HasLeftRow(rows, groupId, userId) ==
  \E i \in 1..Len(rows) :
    rows[i].group_id = groupId /\ rows[i].user_id = userId /\ rows[i].left

\* C15: once a member is removed, getGroupMessages of that user fails with the
\* not-a-member error; once the user is added again, the joinedAt of the new
\* membership row governs: a returned history of a re-added member holds no
\* message older than the new row's joinedAt (none of the earlier membership
\* window, none of the gap), for every limit and offset.
C15_RemovedFailsReaddedSeesFromNewJoinedAt ==
  [][
     /\ \A f \in frames :
          (/\ f.op = "getGroupMessages" /\ f.pc = "getMemberJoinedAt"
           /\ getGroupMessagesJoinedAt(f, TRUE)
           /\ ~isActiveMember(groupMembers, f.a, f.userId)) =>
            done'.threw = "No eres miembro de este grupo"
     /\ (/\ done'.op = "getGroupMessages" /\ done'.threw = "none"
         /\ HasLeftRow(groupMembers', done'.a, done'.userId)
         /\ isActiveMember(groupMembers', done'.a, done'.userId)) =>
           \A limit \in Limits, offset \in Offsets :
             LET rows == getGroupMessages(groupMessages', done'.b, done'.a, limit, offset) IN
             \A i \in 1..Len(rows) :
               rows[i].timestamp >=
                 getMemberJoinedAt(groupMembers', done'.a, done'.userId)
    ]_vars


\* The rows of group_members with left_at IS NULL for the user in the group.
ActiveRows(rows, groupId, userId) ==
  {i \in 1..Len(rows) :
     rows[i].group_id = groupId /\ rows[i].user_id = userId /\ ~rows[i].left}

\* C16: for every (group, user) at most one membership row has left_at IS
\* NULL, also when addMember calls for the same pair interleave.
C16_AtMostOneActiveRow ==
  \A i \in 1..Len(groupMembers) :
    Cardinality(ActiveRows(groupMembers, groupMembers[i].group_id,
                           groupMembers[i].user_id)) <= 1


\* C17: every group has exactly one admin, who never changes and who has an
\* active membership row, through createGroup, updateGroup, addMember and
\* removeMember.
C17_OneAdminNeverChangesIsActive ==
  [][
     /\ Len(groups') >= Len(groups)
     /\ \A i \in 1..Len(groups) : groups'[i] = groups[i]
     /\ \A i, j \in 1..Len(groups') : groups'[i].id = groups'[j].id => i = j
     /\ \A i \in 1..Len(groups') :
          /\ groups'[i].admin_user_id \in Users
          /\ isActiveMember(groupMembers', groups'[i].id, groups'[i].admin_user_id)
    ]_vars

\* A removeMember call of the admin that names the admin as the member to
\* remove has returned with the error; the admin's row is still active.
C17_Witness ==
  /\ done.op = "removeMember" /\ done.threw = RemoveMemberError
  /\ isGroupAdmin(groups, done.a, done.userId) /\ done.b = done.userId
  /\ isActiveMember(groupMembers, done.a, done.b)

\* C18: removeMember fails with an error and leaves the membership rows as
\* they are when the caller is not the group's admin or the member to remove is
\* the admin; when it succeeds it sets left_at on the member's row; no
\* membership row is ever deleted.
C18_RemoveMemberMarksNeverDeletes ==
  [][
     /\ Len(groupMembers') >= Len(groupMembers)
     /\ \A i \in 1..Len(groupMembers) :
          \/ groupMembers'[i] = groupMembers[i]
          \/ /\ groupMembers'[i] = [groupMembers[i] EXCEPT !.left = TRUE]
             /\ done'.op = "removeMember" /\ done'.threw = "none"
             /\ done'.a = groupMembers[i].group_id
             /\ done'.b = groupMembers[i].user_id
     /\ (/\ done'.op = "removeMember"
         /\ \/ ~isGroupAdmin(groups, done'.a, done'.userId)
            \/ getGroupById(groups, done'.a).admin_user_id = done'.b) =>
          /\ done'.threw # "none"
          /\ groupMembers' = groupMembers
     /\ (done'.op = "removeMember" /\ done'.threw = "none") =>
          /\ isActiveMember(groupMembers, done'.a, done'.b)
          /\ ~isActiveMember(groupMembers', done'.a, done'.b)
          /\ HasLeftRow(groupMembers', done'.a, done'.b)
    ]_vars

\* A removeMember call of a user who is not the admin has returned with the
\* error, after an earlier call of the admin closed a membership row.
C18_Witness ==
  /\ done.op = "removeMember" /\ done.threw = RemoveMemberError
  /\ ~isGroupAdmin(groups, done.a, done.userId)
  /\ isActiveMember(groupMembers, done.a, done.b)
  /\ \E i \in 1..Len(groupMembers) : groupMembers[i].left


\* The summary rows of the unordered pair {a, b}.
PairRows(convs, a, b) == {i \in 1..Len(convs) : SamePair(convs[i], a, b)}

\* C20: the summary store holds at most one row per unordered pair of users,
\* stored with user1_id < user2_id; the row exists once a message between the
\* two has been sent, and no row is ever deleted; also when the first messages
\* of both directions are sent at the same time.
C20_OneSummaryRowPerPair ==
  [][
     /\ Len(conversations') >= Len(conversations)
     /\ \A i \in 1..Len(conversations) :
          /\ conversations'[i].user1_id = conversations[i].user1_id
          /\ conversations'[i].user2_id = conversations[i].user2_id
     /\ \A i \in 1..Len(conversations') :
          /\ conversations'[i].user1_id < conversations'[i].user2_id
          /\ Cardinality(PairRows(conversations', conversations'[i].user1_id,
                                  conversations'[i].user2_id)) <= 1
     /\ (done'.op = "sendMessage" /\ done'.threw = "none") =>
          PairRows(conversations', done'.userId, done'.a) # {}
    ]_vars


\* The unread counter that a summary row keeps for the user.
UnreadOf(row, userId) ==
  IF row.user1_id = userId THEN row.unread_count_user1 ELSE row.unread_count_user2

\* C19: every sendMessage from A to B that returns has raised B's unread
\* counter of the pair by exactly one and left A's as it was, whichever of the
\* two ids is the smaller, so N sends raise it by N; markMessagesAsRead sets
\* the reader's counter of the pair to zero and leaves the other side's; no
\* other step changes a counter.
C19_UnreadCountsFollowSends ==
  [][
     /\ (done'.op = "sendMessage" /\ done'.threw = "none") =>
          /\ PairRows(conversations, done'.userId, done'.a) # {}
          /\ Len(conversations') = Len(conversations)
          /\ \A i \in 1..Len(conversations) :
               IF SamePair(conversations[i], done'.userId, done'.a)
               THEN /\ UnreadOf(conversations'[i], done'.a) =
                         UnreadOf(conversations[i], done'.a) + 1
                    /\ UnreadOf(conversations'[i], done'.userId) =
                         UnreadOf(conversations[i], done'.userId)
               ELSE conversations'[i] = conversations[i]
     /\ (done'.op = "markMessagesAsRead" /\ done'.threw = "none") =>
          /\ Len(conversations') = Len(conversations)
          /\ \A i \in 1..Len(conversations) :
               IF SamePair(conversations[i], done'.userId, done'.a)
               THEN /\ UnreadOf(conversations'[i], done'.userId) = 0
                    /\ UnreadOf(conversations'[i], done'.a) =
                         UnreadOf(conversations[i], done'.a)
               ELSE conversations'[i] = conversations[i]
     /\ ~(done'.op \in {"sendMessage", "markMessagesAsRead"} /\ done'.threw = "none") =>
          \A i \in 1..Len(conversations) :
            /\ i <= Len(conversations')
            /\ conversations'[i].unread_count_user1 = conversations[i].unread_count_user1
            /\ conversations'[i].unread_count_user2 = conversations[i].unread_count_user2
     /\ \A i \in 1..Len(conversations') :
          i > Len(conversations) =>
            /\ conversations'[i].unread_count_user1 = 0
            /\ conversations'[i].unread_count_user2 = 0
    ]_vars

\* The second sendMessage from the user with the larger id to the user with the
\* smaller id has returned: the receiver's counter is 2, the sender's 0.
C19_Witness ==
  /\ done.op = "sendMessage" /\ done.threw = "none" /\ done.userId > done.a
  /\ Cardinality(PairRows(conversations, done.userId, done.a)) = 1
  /\ \A i \in PairRows(conversations, done.userId, done.a) :
       /\ UnreadOf(conversations[i], done.a) = MaxSent
       /\ UnreadOf(conversations[i], done.userId) = 0


\* The callback was invoked, and with {success: false, error} each time.
Refused(d) ==
  /\ d.acks # <<>>
  /\ \A i \in 1..Len(d.acks) : ~d.acks[i].success

\* The user is the sender or the receiver of the stored direct message.
IsParty(msgs, messageId, userId) ==
  /\ HasMessage(msgs, messageId)
  /\ \/ MessageById(msgs, messageId).sender_id = userId
     \/ MessageById(msgs, messageId).receiver_id = userId

\* C21: group:edit-message and group:delete-message of a user who is not the
\* sender of the message, and chat:delete-message of a user who is neither the
\* sender nor the receiver, end in an error acknowledgement and leave the
\* messages as they are, whether the message exists or not.
C21_NonAuthorRefusedMessageUnchanged ==
  [][
     /\ (/\ done'.op \in {"group:edit-message", "group:delete-message"}
         /\ done'.userId # NoUser
         /\ ~IsAuthor(groupMessages, done'.a, done'.userId)) =>
          Refused(done') /\ groupMessages' = groupMessages
     /\ (/\ done'.op = "chat:delete-message"
         /\ done'.userId # NoUser
         /\ ~IsParty(messages, done'.a, done'.userId)) =>
          Refused(done') /\ messages' = messages
    ]_vars


\* What the store's failures and the validation of the content put into the
\* error payload of group:edit-message and group:delete-message.
GroupMessageFailures ==
  {"SELECT sender_id", "SELECT group_id", "SELECT", "El mensaje no puede estar vacio"}

\* The one error that the service has for a caller who is not the author.
NotAuthorError(op) ==
  IF op = "group:edit-message"
  THEN "No tienes permisos para editar este mensaje o el mensaje no existe"
  ELSE "No tienes permisos para eliminar este mensaje o el mensaje no existe"

\* C22: the error payload that group:edit-message and group:delete-message
\* return to a caller who is not the author is the same when the message
\* exists (sent by another user) and when no message has the id: the response
\* does not tell whether a message id exists.
C22_NonAuthorErrorHidesExistence ==
  (/\ done.op \in {"group:edit-message", "group:delete-message"}
   /\ done.userId # NoUser
   /\ ~IsAuthor(groupMessages, done.a, done.userId)
   /\ done.threw \notin GroupMessageFailures) =>
    done.acks = <<AckErr(NotAuthorError(done.op))>>


\* The store change that the operation is for, as the stores show it when the
\* handler has returned.
Effected(d) ==
  CASE d.op = "chat:send-message" -> HasMessage(messages, d.b)
    [] d.op = "chat:edit-message" -> editMessage(messages, d.a, d.userId)
    [] d.op = "chat:mark-as-read" ->
         \A i \in 1..Len(messages) :
           (messages[i].receiver_id = d.userId /\ messages[i].sender_id = d.a)
             => messages[i].is_read
    [] d.op = "chat:delete-message" ->
         HasMessage(messages, d.a) =>
           \/ /\ MessageById(messages, d.a).sender_id = d.userId
              /\ MessageById(messages, d.a).deleted_by_sender
           \/ /\ MessageById(messages, d.a).receiver_id = d.userId
              /\ MessageById(messages, d.a).deleted_by_receiver
    [] d.op = "group:send-message" -> HasGroupMessage(groupMessages, d.b)
    [] d.op = "group:edit-message" ->
         /\ HasGroupMessage(groupMessages, d.a)
         /\ GroupMessageById(groupMessages, d.a).edited
    [] d.op = "group:delete-message" ->
         /\ HasGroupMessage(groupMessages, d.a)
         /\ GroupMessageById(groupMessages, d.a).is_deleted_for_all
    [] d.op = "group:mark-as-read" ->
         [group_message_id |-> d.a, user_id |-> d.userId] \in groupReads
    [] OTHER -> TRUE

\* C23: a mutating operation that fails or is refused is acknowledged with
\* {success: false, error}, and none is acknowledged with success: true when
\* its store change did not take place: a handler that returns after a store
\* call threw has answered with an error last, and one that answered with
\* success has made its change.
C23_FailureAcknowledgedAsError ==
  (done.op \in MutatingOps /\ done.acks # <<>>) =>
    /\ done.threw # "none" => ~done.acks[Len(done.acks)].success
    /\ done.acks[1].success => Effected(done)


\* No character of the content but spaces.
Blank(content) == \A i \in 1..Len(content) : content[i] = " "

\* C24: chat:send-message with an empty or whitespace-only content, or to the
\* sender itself, is rejected before any store call: the handler returns in the
\* turn of the request with an error acknowledgement, no message row is
\* created, no summary row is created or updated, no unread counter changes,
\* and chat:new-message is emitted to no connection.
C24_RejectedSendTouchesNothing ==
  [][TurnEnded =>
       \A c \in Sockets :
         LET userId == getUserIdBySocketId(c) IN
         userId # NoUser =>
           \A receiverId \in Parties, content \in Contents :
             (/\ Blank(content) \/ userId = receiverId
              /\ ChatSendMessageBegin(c, receiverId, content)) =>
               /\ frames' = frames
               /\ done'.op = "chat:send-message" /\ Refused(done')
               /\ done'.emits = <<>>
               /\ messages' = messages /\ nextMessageId' = nextMessageId
               /\ conversations' = conversations]_vars

\* A send to the sender itself has been rejected while the stores hold a
\* message and its summary row.
C24_Witness ==
  /\ done.op = "chat:send-message"
  /\ done.threw = "No puedes enviarte mensajes a ti mismo"
  /\ messages # <<>> /\ conversations # <<>>


\* How many times the handler emitted the event to the socket: an emit to the
\* socket itself, or a broadcast, which reaches every open socket.
Deliveries(d, ev, c) ==
  Cardinality({i \in 1..Len(d.emits) :
                 /\ d.emits[i].ev = ev
                 /\ \/ d.emits[i].to = c
                    \/ d.emits[i].to = Broadcast /\ sockets[c] = "open"})

\* C25: after a chat:delete-message that was acknowledged with success,
\* chat:message-deleted reaches every connection when deleteForAll is set, and
\* the caller's connection alone, not the counterpart's, when it is not; a
\* chat:delete-message that failed emits no chat:message-deleted.
C25_MessageDeletedToAllOrToCaller ==
  done.op = "chat:delete-message" =>
    \A c \in Sockets :
      Deliveries(done, "chat:message-deleted", c) =
        IF done.acks = <<AckOk>> /\ (done.b # NoArg \/ c = done.sock) THEN 1 ELSE 0

\* The sender has deleted the message for itself: the event went to the
\* sender's socket and not to the receiver's, which is bound.
C25_Witness ==
  /\ done.op = "chat:delete-message" /\ done.acks = <<AckOk>> /\ done.b = NoArg
  /\ HasMessage(messages, done.a)
  /\ MessageById(messages, done.a).sender_id = done.userId
  /\ MessageById(messages, done.a).deleted_by_sender
  /\ MapGet(connectedUsers, MessageById(messages, done.a).receiver_id) \in Sockets \ {done.sock}
  /\ Deliveries(done, "chat:message-deleted", done.sock) = 1


\* The other party of the direct message.
Counterpart(msgs, messageId, userId) ==
  IF MessageById(msgs, messageId).sender_id = userId
  THEN MessageById(msgs, messageId).receiver_id
  ELSE MessageById(msgs, messageId).sender_id

Corrupted(encryptedContent, iv) ==
  \A p \in Plaintexts, v \in IVs :
    encrypt(p, v) # [encryptedContent |-> encryptedContent, iv |-> iv]

\* What the decrypted list must show for a stored row.
Displayed(row, group) ==
  IF group
  THEN IF row.isDeletedForAll THEN DeletedPlaceholder
       ELSE IF Corrupted(row.encryptedContent, row.iv) THEN GroupCorruptedPlaceholder
       ELSE row.encryptedContent.of
  ELSE IF Corrupted(row.encrypted_content, row.iv) THEN MessageCorruptedPlaceholder
       ELSE row.encrypted_content.of

InSeq(x, s) == \E i \in 1..Len(s) : s[i] = x

\* C27: decrypting a list of messages never fails as a whole: the result has
\* one entry per message, in order; an intact message shows its plaintext, a
\* message with a corrupted ciphertext/iv pair shows the corrupted placeholder,
\* a tombstoned group message shows the deleted placeholder and decrypt was
\* not called for it; the two placeholders are different strings.
C27_DecryptionDegradesPerMessage ==
  /\ DeletedPlaceholder # GroupCorruptedPlaceholder
  /\ DeletedPlaceholder # MessageCorruptedPlaceholder
  /\ done.op \in {"getChatHistory", "getGroupMessages"} =>
       LET group == done.op = "getGroupMessages"
           list == IF group THEN groupMessages ELSE messages IN
       /\ done.threw = "none"
       /\ Len(done.b) = Len(list)
       /\ \A i \in 1..Len(list) :
            /\ done.b[i].id = i
            /\ done.b[i].content = Displayed(list[i], group)
            /\ (group /\ list[i].isDeletedForAll) => ~InSeq(i, done.writes)

\* A group list with an intact, a corrupted and a tombstoned message.
C27_Witness ==
  /\ done.op = "getGroupMessages"
  /\ \E i, j, k \in 1..Len(groupMessages) :
       /\ ~groupMessages[i].isDeletedForAll
       /\ ~Corrupted(groupMessages[i].encryptedContent, groupMessages[i].iv)
       /\ ~groupMessages[j].isDeletedForAll
       /\ Corrupted(groupMessages[j].encryptedContent, groupMessages[j].iv)
       /\ groupMessages[k].isDeletedForAll
       /\ Corrupted(groupMessages[k].encryptedContent, groupMessages[k].iv)
       /\ done.b[i].content = "hi"
       /\ done.b[j].content = GroupCorruptedPlaceholder
       /\ done.b[k].content = DeletedPlaceholder


\* The users with an active membership row in the group.
ActiveMembers(rows, groupId) ==
  {rows[i].user_id : i \in {j \in 1..Len(rows) :
                              rows[j].group_id = groupId /\ ~rows[j].left}}

HasMemberRow(rows, groupId, userId) ==
  \E i \in 1..Len(rows) : rows[i].group_id = groupId /\ rows[i].user_id = userId

\* C28: the transaction of createGroup adds both the group row and the active
\* membership row of its admin, or, when it throws, neither; the admin is then
\* the only active member of the new group; in no state is there a group row
\* without a membership row of its admin; a createGroup call that returned has
\* left both rows.
C28_CreateGroupBothRowsOrNeither ==
  [][
     /\ \A i \in 1..Len(groups') :
          HasMemberRow(groupMembers', groups'[i].id, groups'[i].admin_user_id)
     /\ \A f \in frames :
          (f.op = "createGroup" /\ f.pc = "transaction" /\ f \notin frames') =>
            \/ /\ done'.op = "createGroup" /\ done'.threw # "none"
               /\ groups' = groups /\ groupMembers' = groupMembers
            \/ /\ done'.threw = "none"
               /\ Len(groups') = Len(groups) + 1
               /\ SubSeq(groups', 1, Len(groups)) = groups
               /\ groups'[Len(groups')].admin_user_id = f.userId
               /\ ~HasMemberRow(groupMembers, groups'[Len(groups')].id, f.userId)
               /\ Len(groupMembers') = Len(groupMembers) + 1
               /\ SubSeq(groupMembers', 1, Len(groupMembers)) = groupMembers
               /\ ActiveMembers(groupMembers', groups'[Len(groups')].id) = {f.userId}
     /\ (done'.op = "createGroup" /\ done'.threw = "none") =>
          /\ isGroupAdmin(groups', done'.a, done'.userId)
          /\ isActiveMember(groupMembers', done'.a, done'.userId)
    ]_vars

\* A createGroup call has thrown in its transaction after an earlier call
\* created a group.
C28_Witness ==
  /\ done.op = "createGroup" /\ done.threw \in {"INSERT group_members", "commit"}
  /\ Len(groups) = 1
  /\ ActiveMembers(groupMembers, groups[1].id) = {groups[1].admin_user_id}


\* C29: in every state the name of every group row is not empty after trim and
\* at most 100 characters long, through createGroup and updateGroup calls.
C29_StoredNameNonBlankAtMost100 ==
  \A i \in 1..Len(groups) :
    /\ Len(trim(groups[i].name)) > 0
    /\ Len(groups[i].name) <= MaxNameLength


\* The payload value is an integer, as a number or as its decimal text.
IsIntegerValue(x) ==
  \/ x.type = "number" /\ x.halves % 2 = 0
  \/ x.type = "string" /\ x.text = "0"

\* C30: a chat:load-history request whose limit is given and is not a positive
\* integer, or whose offset is given and is not a non-negative integer, is
\* acknowledged with an error and runs no history query.
C30_BadPageRejectedUnqueried ==
  (/\ done.op = "chat:load-history" /\ done.userId # NoUser
   /\ \/ /\ done.b[1].type # "undefined"
         /\ ~(IsIntegerValue(done.b[1]) /\ done.b[1].halves > 0)
      \/ /\ done.b[2].type # "undefined"
         /\ ~(IsIntegerValue(done.b[2]) /\ done.b[2].halves >= 0)) =>
    /\ Len(done.acks) = 1 /\ ~done.acks[1].success
    /\ done.writes = <<>>


\* C31: a deleteMessage call of the sender or the receiver that found the row
\* with its first SELECT, and none of whose queries failed, returns without
\* throwing, however its queries interleave with those of the other side's
\* call on the same message.
C31_InterleavedDeletesBothReturn ==
  done.op = "deleteMessage" => done.threw # "TypeError"


AddMemberRefusals ==
  {"Solo el administrador puede agregar miembros", "El grupo no existe",
   "El usuario ya es miembro activo del grupo"}

\* C32: group:add-member adds a membership row only when the caller is the
\* admin of the group and the user to add has no active row in the group at
\* the time the row is added; a request refused because the caller is not the
\* admin, the group does not exist or the user is an active member is
\* acknowledged with the error, adds no row and emits no group:member-added.
C32_AddMemberOnlyByAdminForNonMember ==
  [][
     /\ Len(groupMembers') > Len(groupMembers) =>
          \E f \in frames :
            /\ f.op = "group:add-member" /\ f.pc = "INSERT"
            /\ groupMembers' = InsertMember(groupMembers, f.a, f.b, Now)
            /\ isGroupAdmin(groups, f.a, f.userId)
            /\ ~isActiveMember(groupMembers, f.a, f.b)
     /\ (done'.op = "group:add-member" /\ done'.threw \in AddMemberRefusals) =>
          /\ groupMembers' = groupMembers
          /\ done'.acks = <<AckErr(done'.threw)>>
          /\ done'.emits = <<>>
    ]_vars


\* The user the registry binds to the socket is the added or removed user or
\* an active member of the group.
ConcernedSocket(d, c) ==
  /\ getUserIdBySocketId(c) # NoUser
  /\ \/ getUserIdBySocketId(c) = d.b
     \/ isActiveMember(groupMembers, d.a, getUserIdBySocketId(c))

\* C33: after a group:add-member (group:remove-member) request that succeeded,
\* the connection bound to the added (removed) user and the connection bound
\* to every active member have received group:member-added
\* (group:member-removed) exactly once each, and no other connection has
\* received it.
C33_MembershipEventOncePerMember ==
  (/\ done.op \in {"group:add-member", "group:remove-member"}
   /\ done.acks = <<AckOk>> /\ done.threw = "none") =>
    \A c \in Sockets :
      Deliveries(done, IF done.op = "group:add-member" THEN "group:member-added"
                       ELSE "group:member-removed", c)
        = IF ConcernedSocket(done, c) THEN 1 ELSE 0


\* C34: a request of an acknowledged operation that arrives on a socket the
\* registry maps from no user returns in the turn of the request with the
\* not-authenticated error as its only callback invocation, without emitting,
\* without starting a store call and with every table as it was; no handler of
\* an acknowledged operation is ever in flight for no user.
C34_UnboundSocketRefusedUntouched ==
  [][
     /\ \A f \in frames' : f.op \in AcknowledgedOps =>
          /\ f.userId # NoUser
          /\ (\A g \in frames : g.op # f.op \/ g.sock # f.sock) =>
               getUserIdBySocketId(f.sock) = f.userId
     /\ (/\ done'.op \in AcknowledgedOps /\ frames' = frames
         /\ getUserIdBySocketId(done'.sock) = NoUser) =>
          /\ done' = NotAuthenticated(done'.op, done'.sock)
          /\ UNCHANGED <<registry, directStore, groupStore>>
    ]_vars

\* A request on a socket bound to no user was refused while another socket is
\* bound to a user and a message is stored.
C34_Witness ==
  /\ done.op \in AcknowledgedOps
  /\ done.acks = <<AckErr("No autenticado")>>
  /\ getUserIdBySocketId(done.sock) = NoUser
  /\ connectedUsers # <<>>
  /\ messages # <<>>


\* C35: in every state a socket is the value of at most one registry entry,
\* through any sequence of authenticate requests, also two requests of one
\* socket that name different users.
C35_SocketBoundToOneUser ==
  \A i, j \in 1..Len(connectedUsers) :
    connectedUsers[i].socketId = connectedUsers[j].socketId => i = j


\* C36: no registry entry has a closed socket as its value: once the
\* disconnect handler of a socket has run its loop, no user is mapped to that
\* socket, whatever authenticate requests came before.
C36_NoEntryForClosedSocket ==
  \A i \in 1..Len(connectedUsers) : sockets[connectedUsers[i].socketId] = "open"


PresenceOps == {"authenticate", "disconnect"}

\* C37: when a handler of authenticate or disconnect broadcasts a presence
\* event and no other such handler is in flight, the event agrees with the
\* registry: user:online, broadcast by the authenticate of a connection that
\* is still open, is about a user who has a binding, and user:offline,
\* broadcast by the disconnect of the user's old connection, is about a user
\* who has none.
C37_LastPresenceEventAgreesWithRegistry ==
  (/\ done.op \in PresenceOps
   /\ \A f \in frames : f.op \notin PresenceOps) =>
    \A i \in 1..Len(done.emits) :
      /\ (done.emits[i].ev = "user:online" /\ sockets[done.sock] = "open") =>
           MapHas(connectedUsers, done.emits[i].key)
      /\ done.emits[i].ev = "user:offline" => ~MapHas(connectedUsers, done.emits[i].key)


\* ------------------------------------- unread counters, every query succeeds
\* sendMessage and markMessagesAsRead calls interleaved query by query, with
\* no query failing: what is left is the order of the queries alone.
NextUnread ==
  \/ EndTurn
  \/ \E senderId \in Users, receiverId \in Users, content \in Contents :
        sendMessageBegin(senderId, receiverId, content)
  \/ \E f \in frames : sendMessageCreate(f, "none")
  \/ \E f \in frames : createOrUpdateSelect(f, TRUE)
  \/ \E f \in frames : createOrUpdateWrite(f, TRUE)
  \/ \E f \in frames : sendMessageIncrementUnreadCount(f, TRUE)
  \/ \E receiverId \in Users, senderId \in Users :
        markMessagesAsReadBegin(receiverId, senderId)
  \/ \E f \in frames : markMessagesAsReadMarkAsRead(f, TRUE)
  \/ \E f \in frames : markMessagesAsReadResetUnreadCount(f, TRUE)

SpecUnread == Init /\ [][NextUnread]_vars

\* The stored messages from a to b that b has not read.
UnreadMessages(a, b) ==
  {j \in 1..Len(messages) :
     /\ messages[j].sender_id = a /\ messages[j].receiver_id = b
     /\ ~messages[j].is_read}

\* A sendMessage(a to b) or a markMessagesAsRead(b, a) call is in flight.
PairInFlight(a, b) ==
  \E f \in frames :
    \/ f.op = "sendMessage" /\ f.userId = a /\ f.a = b
    \/ f.op = "markMessagesAsRead" /\ f.userId = b /\ f.a = a

\* C38: whenever no sendMessage(A to B) and no markMessagesAsRead(B, A) is in
\* flight, B's unread counter in the summary row of the pair equals the number
\* of stored messages from A to B with is_read = false, however the queries
\* of the two operations were interleaved.
C38_UnreadCounterCountsUnreadMessages ==
  \A a \in Users, b \in Users :
    (/\ a # b
     /\ ~PairInFlight(a, b)
     /\ Cardinality(PairRows(conversations, a, b)) = 1) =>
      \A i \in PairRows(conversations, a, b) :
        UnreadOf(conversations[i], b) = Cardinality(UnreadMessages(a, b))


GroupMessageWriters == {"group:edit-message", "group:delete-message"}

\* C39: the row of a stored group message is changed (its content edited or
\* the message tombstoned) only by a group:edit-message or group:delete-message
\* of a user who is, at the time of the change, an active member of the
\* message's group; a user removed from the group leaves their earlier
\* messages unchanged.
C39_GroupMessageChangedByActiveMemberOnly ==
  [][
     \A i \in 1..Len(groupMessages) :
       groupMessages'[i] # groupMessages[i] =>
         \E f \in frames :
           /\ f.op \in GroupMessageWriters
           /\ f.a = groupMessages[i].id
           /\ isActiveMember(groupMembers, groupMessages[i].group_id, f.userId)
    ]_vars


\* C40: after a chat:delete-message with deleteForAll set that was
\* acknowledged with success and broadcast chat:message-deleted for message m,
\* m is in the getConversationHistory result of neither the sender nor the
\* receiver of m (of no user with any contact).
C40_DeletedForAllAbsentFromBothHistories ==
  (/\ done.op = "chat:delete-message" /\ done.b # NoArg
   /\ done.acks = <<AckOk>>
   /\ done.emits = <<Emit("chat:message-deleted", Broadcast, done.a)>>) =>
    \A userId \in Users, contactId \in Users :
      done.a \notin HistoryIds(userId, contactId)

====
